---- MODULE Spec2Model ----
(***************************************************************************)
(* A model of the stargen star-system generator (src/stargen).             *)
(*                                                                         *)
(* Quantities the program keeps as floats are kept here in fixed point:    *)
(*   mass            hundredths of a solar mass        (1.00  -> 100)      *)
(*   age, spans      hundredths of a billion years     (10.0  -> 1000)     *)
(*   temperature     kelvin                                                *)
(*   luminosity      ten-thousandths of a solar lum.   (0.0012 -> 12)      *)
(*   radii           thousandths of an AU              (0.15  -> 150)      *)
(*   eccentricity    hundredths                        (0.95  -> 95)       *)
(*   spacing factor  tenths                            (1.4   -> 14)       *)
(* Comparisons of the program are made exactly (by cross-multiplication);  *)
(* values that are stored are rounded down to the unit.                    *)
(* An optional value is None (the empty tuple) or Some(v) (a 1-tuple).     *)
(***************************************************************************)
EXTENDS Integers, Sequences, FiniteSets, TLC

VARIABLES
    \* look_up exercised on its own
    tree, point, result,
    \* Star / CompanionStar construction exercised on its own
    star, companion, spc,
    \* StarSystem construction
    config,            \* the arguments of StarSystem.__init__ still to be used
    number_of_stars,   \* self.number_of_stars (0 until rolled)
    stars,             \* self.stars
    forbidden_zone,    \* self.forbidden_zone
    gas_giants,        \* self.gas_giants
    idx,               \* which star's entry of self.orbits is followed (0: none yet)
    slot,              \* place_gas_giants: the last i of its inner loop (0: none yet)
    rolled,            \* place_gas_giants: the dice thrown in that iteration
    orbit,             \* that entry: the star, then its slots
    temp_radius,       \* the local temp_radius of calculate_orbits
    pc,                \* the position in StarSystem.__init__
    \* two runs of script.py, one after the other (indexed by run)
    engine,            \* the state of the generator behind the random module
    seed_arg,          \* the --seed argument of the run
    wt,                \* the tables worldtrees.py builds when it is imported
    run_result,        \* the rotation fields of the body the run generates
    rpc,               \* the position of the run in script.py
    body_args,         \* what both runs know of the body before its rotation
    first_call,        \* the table and outcome of the first look_up at a key
    dice,              \* the arguments and the result of one roll_dice call
    body               \* a Terrestrial, GasGiant or MajorMoon under construction

systemVars == <<config, number_of_stars, stars, forbidden_zone, gas_giants,
                idx, orbit, temp_radius, pc, slot, rolled>>
seedVars == <<engine, seed_arg, wt, run_result, rpc, body_args>>
vars == <<tree, point, result, star, companion, spc,
          config, number_of_stars, stars, forbidden_zone, gas_giants,
          idx, orbit, temp_radius, pc, slot, rolled,
          engine, seed_arg, wt, run_result, rpc, body_args, first_call, dice, body>>

None == <<>>
Some(v) == <<v>>
Val(o) == o[1]

Max(a, b) == IF a >= b THEN a ELSE b
Abs(x) == IF x < 0 THEN 0 - x ELSE x
RECURSIVE ISqrtIter(_, _, _)
ISqrtIter(n, lo, hi) ==
    IF lo >= hi THEN lo
    ELSE LET mid == (lo + hi + 1) \div 2
         IN IF mid * mid <= n THEN ISqrtIter(n, mid, hi)
                              ELSE ISqrtIter(n, lo, mid - 1)

\* math.sqrt, rounded down to an integer
ISqrt(n) == ISqrtIter(n, 0, IF n <= 46340 THEN n ELSE 46340)

(***************************************************************************)
(* helpers.py                                                              *)
(***************************************************************************)
RECURSIVE DiceSums(_)
RECURSIVE AdvanceN(_, _)
RECURSIVE DrawSeq(_, _)
RECURSIVE SumSeq(_)
DiceSums(n) ==
    IF n <= 0 THEN {0}
    ELSE {s + d : s \in DiceSums(n - 1), d \in 1..6}

\* a plausible slip: the result clamped at zero
RollDiceClamped(number_of_dice, modifier) ==
    {Max(s + modifier, 0) : s \in DiceSums(number_of_dice)}

\* roll_dice: the set of values one call can return
RollDice(number_of_dice, modifier) ==
    {s + modifier : s \in DiceSums(number_of_dice)}

Interval(b, e, d) == [begin |-> b, end |-> e, data |-> d]

\* IntervalTree.__getitem__(point): the intervals with begin <= point < end
Containing(t, p) == {iv \in t : iv.begin <= p /\ p < iv.end}

\* Interval.__lt__: by begin, then end, then data
IntervalLess(a, b) ==
    \/ a.begin < b.begin
    \/ a.begin = b.begin /\ a.end < b.end
    \/ a.begin = b.begin /\ a.end = b.end /\ a.data < b.data

RECURSIVE Sorted(_)
Sorted(S) ==
    IF S = {} THEN <<>>
    ELSE LET least == CHOOSE a \in S : \A b \in S \ {a} : IntervalLess(a, b)
         IN <<least>> \o Sorted(S \ {least})

IndexError == [exception |-> "IndexError", message |-> "list index out of range"]

\* look_up raises exactly when sorted(tree[point]) is empty
LookUpRaises(t, p) == Sorted(Containing(t, p)) = <<>>

\* a plausible slip: the last instead of the first of the sorted intervals
LookUpLast(t, p) ==
    LET hits == Sorted(Containing(t, p)) IN hits[Len(hits)].data

\* look_up: sorted(tree[point])[0].data
LookUp(t, p) == Sorted(Containing(t, p))[1].data

\* a plausible slip: the range that answered is taken out of the table
TreeAfterLookUpPop(t, p) ==
    IF Containing(t, p) = {} THEN t ELSE t \ {Sorted(Containing(t, p))[1]}

\* the table after look_up: tree[point] and sorted() build new collections
\* and the table is not written
TreeAfterLookUp(t, p) == t

\* what a caller observes from one call of look_up
LookUpOutcome(t, p) ==
    IF LookUpRaises(t, p)
    THEN [status |-> "raised", error |-> IndexError]
    ELSE [status |-> "returned", data |-> LookUp(t, p)]

(***************************************************************************)
(* startrees.py                                                            *)
(***************************************************************************)
multiple_stars_tree ==
    {Interval(3, 11, 1), Interval(11, 16, 2), Interval(16, 30, 3)}

MassTable(rows) == {Interval(r[1], r[2] + 1, r[3]) : r \in rows}

stellar_mass_tree_first_roll_3_second_roll ==
    MassTable({<<3, 10, 200>>, <<11, 18, 190>>})
stellar_mass_tree_first_roll_4_second_roll ==
    MassTable({<<3, 8, 180>>, <<9, 11, 170>>, <<12, 18, 160>>})
stellar_mass_tree_first_roll_5_second_roll ==
    MassTable({<<3, 7, 150>>, <<8, 10, 145>>, <<11, 12, 140>>, <<13, 18, 135>>})
stellar_mass_tree_first_roll_6_second_roll ==
    MassTable({<<3, 7, 130>>, <<8, 9, 125>>, <<10, 10, 120>>, <<11, 12, 115>>,
               <<13, 18, 110>>})
stellar_mass_tree_first_roll_7_second_roll ==
    MassTable({<<3, 7, 105>>, <<8, 9, 100>>, <<10, 10, 95>>, <<11, 12, 90>>,
               <<13, 18, 85>>})
stellar_mass_tree_first_roll_8_second_roll ==
    MassTable({<<3, 7, 80>>, <<8, 9, 75>>, <<10, 10, 70>>, <<11, 12, 65>>,
               <<13, 18, 60>>})
stellar_mass_tree_first_roll_9_second_roll ==
    MassTable({<<3, 8, 55>>, <<9, 11, 50>>, <<12, 18, 45>>})
stellar_mass_tree_first_roll_10_second_roll ==
    MassTable({<<3, 8, 40>>, <<9, 11, 35>>, <<12, 18, 30>>})
stellar_mass_tree_first_roll_11_second_roll == MassTable({<<3, 18, 25>>})
stellar_mass_tree_first_roll_12_second_roll == MassTable({<<3, 18, 20>>})
stellar_mass_tree_first_roll_13_second_roll == MassTable({<<3, 18, 15>>})
stellar_mass_tree_first_roll_14_second_roll == MassTable({<<3, 18, 10>>})

stellar_mass_tree_first_roll ==
    {Interval(3, 4, stellar_mass_tree_first_roll_3_second_roll),
     Interval(4, 5, stellar_mass_tree_first_roll_4_second_roll),
     Interval(5, 6, stellar_mass_tree_first_roll_5_second_roll),
     Interval(6, 7, stellar_mass_tree_first_roll_6_second_roll),
     Interval(7, 8, stellar_mass_tree_first_roll_7_second_roll),
     Interval(8, 9, stellar_mass_tree_first_roll_8_second_roll),
     Interval(9, 10, stellar_mass_tree_first_roll_9_second_roll),
     Interval(10, 11, stellar_mass_tree_first_roll_10_second_roll),
     Interval(11, 12, stellar_mass_tree_first_roll_11_second_roll),
     Interval(12, 13, stellar_mass_tree_first_roll_12_second_roll),
     Interval(13, 14, stellar_mass_tree_first_roll_13_second_roll),
     Interval(14, 19, stellar_mass_tree_first_roll_14_second_roll)}

stellar_mass_tree_first_roll_garden_world ==
    {Interval(1, 2, stellar_mass_tree_first_roll_5_second_roll),
     Interval(2, 3, stellar_mass_tree_first_roll_6_second_roll),
     Interval(3, 5, stellar_mass_tree_first_roll_7_second_roll),
     Interval(5, 7, stellar_mass_tree_first_roll_8_second_roll)}

\* data: base age, step a, step b
stellar_age_tree ==
    {Interval(3, 4, <<0, 0, 0>>),
     Interval(4, 7, <<10, 30, 5>>),
     Interval(7, 11, <<200, 60, 10>>),
     Interval(11, 15, <<560, 60, 10>>),
     Interval(15, 18, <<800, 60, 10>>),
     Interval(18, 19, <<1000, 60, 10>>)}

EvolutionRow(b, e, ty, temp, lmin, lmax, m, s, g) ==
    Interval(b, e, [type |-> ty, temp |-> temp, l_min |-> lmin, l_max |-> lmax,
                    m_span |-> m, s_span |-> s, g_span |-> g])

stellar_evolution_tree ==
    {EvolutionRow(10, 15, "M7", 3100, 12, None, None, None, None),
     EvolutionRow(15, 20, "M6", 3200, 36, None, None, None, None),
     EvolutionRow(20, 25, "M5", 3200, 79, None, None, None, None),
     EvolutionRow(25, 30, "M4", 3300, 150, None, None, None, None),
     EvolutionRow(30, 35, "M4", 3300, 240, None, None, None, None),
     EvolutionRow(35, 40, "M3", 3400, 370, None, None, None, None),
     EvolutionRow(40, 45, "M2", 3500, 540, None, None, None, None),
     EvolutionRow(45, 50, "M1", 3600, 700, Some(800), Some(7000), None, None),
     EvolutionRow(50, 55, "M0", 3800, 900, Some(1100), Some(5900), None, None),
     EvolutionRow(55, 60, "K8", 4000, 1100, Some(1500), Some(5000), None, None),
     EvolutionRow(60, 65, "K6", 4200, 1300, Some(2000), Some(4200), None, None),
     EvolutionRow(65, 70, "K5", 4400, 1500, Some(2500), Some(3700), None, None),
     EvolutionRow(70, 75, "K4", 4600, 1900, Some(3500), Some(3000), None, None),
     EvolutionRow(75, 80, "K2", 4900, 2300, Some(4800), Some(2400), None, None),
     EvolutionRow(80, 85, "K0", 5200, 2800, Some(6500), Some(2000), None, None),
     EvolutionRow(85, 90, "G8", 5400, 3600, Some(8400), Some(1700), None, None),
     EvolutionRow(90, 95, "G6", 5500, 4500, Some(10000), Some(1400), None, None),
     EvolutionRow(95, 100, "G4", 5700, 5600, Some(13000), Some(1200), Some(180), Some(110)),
     EvolutionRow(100, 105, "G2", 5800, 6800, Some(16000), Some(1000), Some(160), Some(100)),
     EvolutionRow(105, 110, "G1", 5900, 8700, Some(19000), Some(880), Some(140), Some(80)),
     EvolutionRow(110, 115, "G0", 6000, 11000, Some(22000), Some(770), Some(120), Some(70)),
     EvolutionRow(115, 120, "F9", 6100, 14000, Some(26000), Some(670), Some(100), Some(60)),
     EvolutionRow(120, 125, "F8", 6300, 17000, Some(30000), Some(590), Some(90), Some(60)),
     EvolutionRow(125, 130, "F7", 6400, 21000, Some(35000), Some(520), Some(80), Some(50)),
     EvolutionRow(130, 135, "F6", 6500, 25000, Some(39000), Some(460), Some(70), Some(40)),
     EvolutionRow(135, 140, "F5", 6600, 31000, Some(45000), Some(410), Some(60), Some(40)),
     EvolutionRow(140, 145, "F4", 6700, 37000, Some(51000), Some(370), Some(60), Some(40)),
     EvolutionRow(145, 150, "F3", 6900, 43000, Some(57000), Some(330), Some(50), Some(30)),
     EvolutionRow(150, 160, "F2", 7000, 51000, Some(65000), Some(300), Some(50), Some(30)),
     EvolutionRow(160, 170, "F0", 7300, 67000, Some(82000), Some(250), Some(40), Some(20)),
     EvolutionRow(170, 180, "A9", 7500, 86000, Some(100000), Some(210), Some(30), Some(20)),
     EvolutionRow(180, 190, "A7", 7800, 110000, Some(130000), Some(180), Some(30), Some(20)),
     EvolutionRow(190, 200, "A6", 8000, 130000, Some(160000), Some(150), Some(20), Some(10)),
     EvolutionRow(200, 210, "A5", 8200, 160000, Some(200000), Some(130), Some(20), Some(10))}

stellar_evolution_tree_reverse ==
    {Interval(0, 3150, "M7"), Interval(3150, 3200, "M6"), Interval(3200, 3250, "M5"),
     Interval(3250, 3350, "M4"), Interval(3350, 3450, "M3"), Interval(3450, 3550, "M2"),
     Interval(3550, 3650, "M1"), Interval(3650, 3900, "M0"), Interval(3900, 4100, "K8"),
     Interval(4100, 4300, "K6"), Interval(4300, 4500, "K5"), Interval(4500, 4700, "K4"),
     Interval(4700, 5050, "K2"), Interval(5050, 5300, "K0"), Interval(5300, 5450, "G8"),
     Interval(5450, 5600, "G6"), Interval(5600, 5750, "G4"), Interval(5750, 5850, "G2"),
     Interval(5850, 5950, "G1"), Interval(5950, 6050, "G0"), Interval(6050, 6200, "F9"),
     Interval(6200, 6350, "F8"), Interval(6350, 6450, "F7"), Interval(6450, 6550, "F6"),
     Interval(6550, 6650, "F5"), Interval(6650, 6800, "F4"), Interval(6800, 6950, "F3"),
     Interval(6950, 7150, "F2"), Interval(7150, 7400, "F0"), Interval(7400, 7650, "A9"),
     Interval(7650, 7900, "A7"), Interval(7900, 8100, "A6"), Interval(8100, 10000, "A5")}

\* data: separation class, radius multiplier
orbital_separation_tree ==
    {Interval(0, 7, <<"Very Close", 50>>),
     Interval(7, 10, <<"Close", 500>>),
     Interval(10, 12, <<"Moderate", 2000>>),
     Interval(12, 15, <<"Wide", 10000>>),
     Interval(15, 101, <<"Distant", 50000>>)}

stellar_orbital_eccentricity_tree ==
    {Interval(-3, 4, 0), Interval(4, 5, 10), Interval(5, 6, 20), Interval(6, 7, 30),
     Interval(7, 9, 40), Interval(9, 12, 50), Interval(12, 14, 60),
     Interval(14, 16, 70), Interval(16, 17, 80), Interval(17, 18, 90),
     Interval(18, 101, 95)}

gas_giant_arrangement_tree ==
    {Interval(0, 11, "No Gas Giant"),
     Interval(11, 13, "Conventional Gas Giant"),
     Interval(13, 15, "Eccentric Gas Giant"),
     Interval(15, 19, "Epistellar Gas Giant")}

orbital_spacing_tree ==
    {Interval(3, 5, 14), Interval(5, 7, 15), Interval(7, 9, 16), Interval(9, 13, 17),
     Interval(13, 15, 18), Interval(15, 17, 19), Interval(17, 19, 20)}

gas_giant_size_tree ==
    {Interval(3, 11, "Small"), Interval(11, 17, "Medium"), Interval(17, 101, "Large")}

\* a value of the table is a string or a list ["Terrestrial Planet", size]
orbit_contents_tree ==
    {Interval(-100, 4, [kind |-> "str", value |-> "Empty Orbit"]),
     Interval(4, 7, [kind |-> "str", value |-> "Asteroid Belt"]),
     Interval(7, 9, [kind |-> "list", value |-> <<"Terrestrial Planet", "Tiny">>]),
     Interval(9, 12, [kind |-> "list", value |-> <<"Terrestrial Planet", "Small">>]),
     Interval(12, 16, [kind |-> "list", value |-> <<"Terrestrial Planet", "Standard">>]),
     Interval(16, 101, [kind |-> "list", value |-> <<"Terrestrial Planet", "Large">>])}

(***************************************************************************)
(* generator.py: Star                                                      *)
(***************************************************************************)
\* Star.generate_stellar_mass, given the two rolls
GenerateStellarMass(garden, first_roll, second_roll) ==
    LET table == IF garden
                 THEN LookUp(stellar_mass_tree_first_roll_garden_world, first_roll)
                 ELSE LookUp(stellar_mass_tree_first_roll, first_roll)
    IN LookUp(table, second_roll)

\* the rolls generate_stellar_mass can make for its first look-up
StellarMassFirstRolls(garden) == IF garden THEN RollDice(1, 0) ELSE RollDice(3, 0)

\* the rolls generate_stellar_age can make for its look-up
StellarAgeRolls(garden) == IF garden THEN RollDice(2, 2) ELSE RollDice(3, 0)

\* Star.generate_stellar_age, given the table roll and the two step rolls
GenerateStellarAge(age_roll, roll_a, roll_b) ==
    LET row == LookUp(stellar_age_tree, age_roll)
    IN row[1] + row[2] * roll_a + row[3] * roll_b

\* a plausible slip: >= where the code has >, so a threshold age moves on
CalculateStellarSequenceInclusive(mass, age) ==
    LET row == LookUp(stellar_evolution_tree, mass)
    IN IF row.s_span = None THEN "V"
       ELSE IF age >= Val(row.m_span) + Val(row.s_span) + Val(row.g_span) THEN "D"
       ELSE IF age >= Val(row.m_span) + Val(row.s_span) THEN "III"
       ELSE IF age >= Val(row.m_span) THEN "IV"
       ELSE "V"

\* a plausible slip: the labels of the subgiant and giant branches exchanged
CalculateStellarSequenceSwapped(mass, age) ==
    LET row == LookUp(stellar_evolution_tree, mass)
    IN IF row.s_span = None THEN "V"
       ELSE IF age > Val(row.m_span) + Val(row.s_span) + Val(row.g_span) THEN "D"
       ELSE IF age > Val(row.m_span) + Val(row.s_span) THEN "IV"
       ELSE IF age > Val(row.m_span) THEN "III"
       ELSE "V"

\* Star.calculate_stellar_sequence
CalculateStellarSequence(mass, age) ==
    LET row == LookUp(stellar_evolution_tree, mass)
    IN IF row.s_span = None THEN "V"
       ELSE IF age > Val(row.m_span) + Val(row.s_span) + Val(row.g_span) THEN "D"
       ELSE IF age > Val(row.m_span) + Val(row.s_span) THEN "III"
       ELSE IF age > Val(row.m_span) THEN "IV"
       ELSE "V"

\* the mass white_dwarf_death computes from its 2d6-2 roll: 0.9 + 0.05 * roll
WhiteDwarfMass(roll) == 90 + 5 * roll

\* a plausible slip: the white-dwarf branch falls through to the tabulated value
CalculateStellarTemperatureNoDwarf(mass, age, sequence, giant_roll) ==
    LET row == LookUp(stellar_evolution_tree, mass)
    IN IF sequence = "V" THEN Some(row.temp)
       ELSE IF sequence = "IV"
       THEN Some(row.temp - ((age - Val(row.m_span)) * (row.temp - 4800))
                                \div Val(row.s_span))
       ELSE IF sequence = "III" THEN Some(3000 + 200 * giant_roll)
       ELSE Some(row.temp)

\* Star.calculate_stellar_temperature; giant_roll is the 2d6-2 roll of a giant
CalculateStellarTemperature(mass, age, sequence, giant_roll) ==
    LET row == LookUp(stellar_evolution_tree, mass)
    IN IF sequence = "V" THEN Some(row.temp)
       ELSE IF sequence = "IV"
       THEN Some(row.temp - ((age - Val(row.m_span)) * (row.temp - 4800))
                                \div Val(row.s_span))
       ELSE IF sequence = "III" THEN Some(3000 + 200 * giant_roll)
       ELSE None

\* a plausible slip: a main-sequence star kept at the tabulated minimum
CalculateStellarLuminosityFlat(mass, age, sequence) ==
    LET row == LookUp(stellar_evolution_tree, mass)
    IN IF sequence = "V" THEN row.l_min
       ELSE IF sequence = "IV" THEN Val(row.l_max)
       ELSE IF sequence = "III" THEN Val(row.l_max) * 25
       ELSE 10

\* Star.calculate_stellar_luminosity
CalculateStellarLuminosity(mass, age, sequence) ==
    LET row == LookUp(stellar_evolution_tree, mass)
    IN IF sequence = "V"
       THEN IF row.l_max = None THEN row.l_min
            ELSE row.l_min + (age * (Val(row.l_max) - row.l_min)) \div Val(row.m_span)
       ELSE IF sequence = "IV" THEN Val(row.l_max)
       ELSE IF sequence = "III" THEN Val(row.l_max) * 25
       ELSE 10

\* Star.calculate_stellar_type
CalculateStellarType(mass, sequence, temperature) ==
    IF sequence = "V" THEN LookUp(stellar_evolution_tree, mass).type
    ELSE IF sequence \in {"IV", "III"}
    THEN LookUp(stellar_evolution_tree_reverse, Val(temperature))
    ELSE "None"

\* a plausible slip: a missing temperature answered with a radius of 0
CalculateStellarRadiusZero(temperature, luminosity) ==
    IF temperature = None THEN Some(0)
    ELSE Some((15500 * ISqrt(luminosity))
                 \div ((Val(temperature) * Val(temperature)) \div 100))

\* Star.calculate_stellar_radius: 155000 * sqrt(luminosity) / temperature^2
CalculateStellarRadius(temperature, luminosity) ==
    IF temperature = None THEN None
    ELSE Some((15500 * ISqrt(luminosity))
                 \div ((Val(temperature) * Val(temperature)) \div 100))

\* Star.calculate_inner_limit_radius: max(0.1 * mass, 0.01 * sqrt(luminosity))
CalculateInnerLimitRadius(mass, luminosity) ==
    Max(mass, ISqrt(luminosity * 100) \div 100)

\* Star.calculate_outer_limit_radius: 40 * mass
CalculateOuterLimitRadius(mass) == 400 * mass

\* Star.calculate_snow_line_radius: 4.85 * sqrt(l_min)
CalculateSnowLineRadius(mass) ==
    (485 * ISqrt(LookUp(stellar_evolution_tree, mass).l_min * 10000)) \div 1000

\* Star.__init__ once mass and age are known.  white_dwarf_death assigns its
\* result to the attribute stellar_mass; the attribute mass is not written.
StarInit(mass, age, garden, dwarf_roll, giant_roll) ==
    LET sequence == CalculateStellarSequence(mass, age)
        temperature == CalculateStellarTemperature(mass, age, sequence, giant_roll)
        luminosity == CalculateStellarLuminosity(mass, age, sequence)
    IN [guarantee_garden_world |-> garden,
        mass |-> mass,
        age |-> age,
        sequence |-> sequence,
        stellar_mass |-> IF sequence = "D" THEN Some(WhiteDwarfMass(dwarf_roll))
                                           ELSE None,
        temperature |-> temperature,
        luminosity |-> luminosity,
        type |-> CalculateStellarType(mass, sequence, temperature),
        radius |-> CalculateStellarRadius(temperature, luminosity),
        inner_limit_radius |-> CalculateInnerLimitRadius(mass, luminosity),
        outer_limit_radius |-> CalculateOuterLimitRadius(mass),
        snow_line_radius |-> CalculateSnowLineRadius(mass),
        gas_giant_arrangement |-> "None"]

\* the rolls white_dwarf_death makes: one 2d6-2 roll, only for a white dwarf
DwarfRolls(mass, age) ==
    IF CalculateStellarSequence(mass, age) = "D" THEN RollDice(2, -2) ELSE {0}

\* the rolls calculate_stellar_temperature makes: one 2d6-2 roll, only for a giant
GiantRolls(mass, age) ==
    IF CalculateStellarSequence(mass, age) = "III" THEN RollDice(2, -2) ELSE {0}

(***************************************************************************)
(* generator.py: CompanionStar                                             *)
(***************************************************************************)
\* a plausible slip: the floor of 0.10 solar masses left out
GenerateCompanionMassNoFloor(primary_mass, mass_roll, dice_sum) ==
    IF mass_roll = 0 THEN primary_mass
    ELSE primary_mass - 5 * dice_sum

\* CompanionStar.generate_companion_mass; mass_roll is the 1d6-1 roll and
\* dice_sum the value of roll_dice(mass_roll)
GenerateCompanionMass(primary_mass, mass_roll, dice_sum) ==
    IF mass_roll = 0 THEN primary_mass
    ELSE Max(primary_mass - 5 * dice_sum, 10)

\* the second roll of generate_companion_mass, made only when the first is not 0
CompanionDiceSums(mass_roll) ==
    IF mass_roll = 0 THEN {0} ELSE RollDice(mass_roll, 0)

\* a plausible slip: every companion takes the third star's +6
OrbitalSeparationModifierEveryCompanion(garden, designation) ==
    (IF garden THEN 4 ELSE 0) + (IF designation >= 1 THEN 6 ELSE 0)

\* a plausible slip: the modifiers of the eccentricity table two deeper
EccentricityModifierDeeper(separation) ==
    IF separation = "Very Close" THEN -8
    ELSE IF separation = "Close" THEN -6
    ELSE IF separation = "Moderate" THEN -4
    ELSE 0

\* the modifier of CompanionStar.generate_orbital_separation
OrbitalSeparationModifier(garden, designation) ==
    (IF garden THEN 4 ELSE 0) + (IF designation = 2 THEN 6 ELSE 0)

\* the modifier of CompanionStar.generate_eccentricity
EccentricityModifier(separation) ==
    IF separation = "Very Close" THEN -6
    ELSE IF separation = "Close" THEN -4
    ELSE IF separation = "Moderate" THEN -2
    ELSE 0

\* CompanionStar.calculate_stellar_orbital_period, in thousandths of a year
CalculateStellarOrbitalPeriod(semi_major_axis, mass, primary_mass) ==
    (semi_major_axis * ISqrt((semi_major_axis * 10) \div (mass + primary_mass)))
        \div 10

(***************************************************************************)
(* look_up on its own: a table of up to MaxIntervals ranges with end       *)
(* points in 0..MaxPoint and outcomes in 0..MaxData, queried at any point. *)
(***************************************************************************)
MaxPoint == 3
MaxData == 1
MaxIntervals == 2

Points == 0..MaxPoint

\* IntervalTree refuses a null interval (begin >= end)
Tables ==
    LET IntervalUniverse ==
            {Interval(b, e, d) : b \in Points, e \in Points, d \in 0..MaxData}
                \cap {iv \in [begin : Points, end : Points, data : 0..MaxData] :
                         iv.begin < iv.end}
    IN {t \in SUBSET IntervalUniverse : Cardinality(t) <= MaxIntervals}

Pending == [status |-> "pending"]

ArgMasses == {5 * k : k \in 2..40}

SystemIdle ==
    /\ config = None /\ number_of_stars = 0 /\ stars = <<>>
    /\ forbidden_zone = <<>> /\ gas_giants = <<>>
    /\ idx = 0 /\ orbit = <<>> /\ temp_radius = 0 /\ pc = "idle"
    /\ slot = 0 /\ rolled = None
SeedIdle ==
    /\ engine = <<>> /\ seed_arg = <<>> /\ wt = <<>> /\ run_result = <<>>
    /\ rpc = <<>> /\ body_args = None

InitLookUp ==
    /\ tree \in Tables
    /\ point \in Points
    /\ result = Pending
    /\ first_call = None
    /\ star = None /\ companion = None /\ spc = "idle"
    /\ SystemIdle
    /\ SeedIdle
    /\ dice = None
    /\ body = None

\* one call look_up(tree, point)
CallLookUp ==
    /\ result.status = "pending"
    /\ result' = LookUpOutcome(tree, point)
    /\ tree' = TreeAfterLookUp(tree, point)
    /\ first_call' = Some([tree |-> tree, outcome |-> result', repeated |-> FALSE])
    /\ UNCHANGED point
    /\ UNCHANGED <<star, companion, spc>>
    /\ UNCHANGED <<systemVars, seedVars, dice, body>>

\* the caller turns to another key of the same table
NextQuery ==
    /\ result.status # "pending"
    /\ \E p \in Points : point' = p
    /\ result' = Pending
    /\ first_call' = None
    /\ UNCHANGED tree
    /\ UNCHANGED <<star, companion, spc>>
    /\ UNCHANGED <<systemVars, seedVars, dice, body>>

\* the caller resolves the same key of the same table a second time
CallLookUpAgain ==
    /\ result.status # "pending"
    /\ first_call # None
    /\ ~Val(first_call).repeated
    /\ result' = LookUpOutcome(tree, point)
    /\ tree' = TreeAfterLookUp(tree, point)
    /\ first_call' = Some([Val(first_call) EXCEPT !.repeated = TRUE])
    /\ UNCHANGED point
    /\ UNCHANGED <<star, companion, spc>>
    /\ UNCHANGED <<systemVars, seedVars, dice, body>>

NextLookUp == CallLookUp \/ CallLookUpAgain \/ NextQuery

SpecLookUp == InitLookUp /\ [][NextLookUp]_vars

(***************************************************************************)
(* the look-ups keyed by dice while a system is generated: each call site  *)
(* with its table, its roll_dice arguments and what was given for the      *)
(* modifier; generate_stars constructs the star at index i > 0 with         *)
(* designation i, so the third star is the companion of designation 2      *)
(***************************************************************************)
KeyedLookUps ==
    LET Site(method, table, number_of_dice, modifier, given) ==
            [method |-> method, tree |-> table, given |-> given,
             number_of_dice |-> number_of_dice, modifier |-> modifier]
        Term(given, name, amount) == IF name \in given THEN amount ELSE 0
        separations ==
            {LookUp(orbital_separation_tree, r + OrbitalSeparationModifier(g, n))[1] :
                r \in RollDice(3, 0), g \in BOOLEAN, n \in {1, 2}}
    IN  [generate_number_of_stars |->
            {Site("generate_number_of_stars", multiple_stars_tree, 3,
                  Term(given, "open cluster", 3), given) :
                given \in SUBSET {"open cluster"}},
         generate_stellar_mass |->
            {Site("generate_stellar_mass", stellar_mass_tree_first_roll, 3, 0, {}),
             Site("generate_stellar_mass", stellar_mass_tree_first_roll_garden_world,
                  1, 0, {"garden"})},
         generate_stellar_mass_second_roll |->
            {Site("generate_stellar_mass", LookUp(stellar_mass_tree_first_roll, r),
                  3, 0, {"second roll"}) : r \in StellarMassFirstRolls(FALSE)}
            \cup {Site("generate_stellar_mass",
                       LookUp(stellar_mass_tree_first_roll_garden_world, r),
                       3, 0, {"second roll", "garden"}) :
                     r \in StellarMassFirstRolls(TRUE)},
         generate_stellar_age |->
            {Site("generate_stellar_age", stellar_age_tree, 3, 0, {}),
             Site("generate_stellar_age", stellar_age_tree, 2, 2, {"garden"})},
         generate_orbital_separation |->
            {Site("generate_orbital_separation", orbital_separation_tree, 3,
                  OrbitalSeparationModifier("garden" \in given,
                                            IF "third star" \in given THEN 2 ELSE 1),
                  given) :
                given \in SUBSET {"garden", "third star"}},
         generate_eccentricity |->
            {Site("generate_eccentricity", stellar_orbital_eccentricity_tree, 3,
                  EccentricityModifier(s), {s}) : s \in separations},
         calculate_gas_giants |->
            {Site("calculate_gas_giants", gas_giant_arrangement_tree, 3, 0, {})},
         calculate_orbits |->
            {Site("calculate_orbits", orbital_spacing_tree, 3, 0, {})},
         place_gas_giants |->
            {Site("place_gas_giants", gas_giant_size_tree, 3,
                  Term(given, "seeded or inside the snow line", 4), given) :
                given \in SUBSET {"seeded or inside the snow line"}},
         fill_remaining_orbits |->
            {Site("fill_remaining_orbits", orbit_contents_tree, 3,
                  0 - Term(given, "at a limit", 3) - Term(given, "next is a giant", 6)
                    - Term(given, "previous is a giant", 3)
                    - Term(given, "at a forbidden zone", 6),
                  given) :
                given \in SUBSET {"at a limit", "next is a giant",
                                  "previous is a giant", "at a forbidden zone"}}]

InitKeys ==
    /\ \E site \in DOMAIN KeyedLookUps : \E q \in KeyedLookUps[site] :
          /\ config = [method |-> q.method, given |-> q.given]
          /\ tree = q.tree
          /\ dice = [number_of_dice |-> q.number_of_dice, modifier |-> q.modifier,
                     result |-> None]
    /\ point = 0
    /\ result = Pending
    /\ first_call = None
    /\ number_of_stars = 0 /\ stars = <<>>
    /\ forbidden_zone = <<>> /\ gas_giants = <<>>
    /\ idx = 0 /\ orbit = <<>> /\ temp_radius = 0 /\ pc = "idle"
    /\ slot = 0 /\ rolled = None
    /\ star = None /\ companion = None /\ spc = "idle"
    /\ SeedIdle
    /\ body = None

\* look_up(table, roll_dice(number_of_dice, modifier)) at the call site
RollAndLookUp ==
    /\ result.status = "pending"
    /\ dice.result = None
    /\ \E r \in RollDice(dice.number_of_dice, dice.modifier) :
          /\ dice' = [dice EXCEPT !.result = Some(r)]
          /\ point' = r
          /\ result' = LookUpOutcome(tree, r)
    /\ tree' = TreeAfterLookUp(tree, point')
    /\ UNCHANGED <<first_call, <<star, companion, spc>>, systemVars, seedVars, body>>

SpecKeys == InitKeys /\ [][RollAndLookUp]_vars

(***************************************************************************)
(* roll_dice on its own, for up to MaxDice dice and modifiers of either    *)
(* sign up to MaxModifier.                                                 *)
(***************************************************************************)
MaxDice == 3
MaxModifier == 4

InitRollDice ==
    /\ dice \in [number_of_dice : 0..MaxDice,
                  modifier : (0 - MaxModifier)..MaxModifier,
                  result : {None}]
    /\ tree = {} /\ point = 0 /\ result = Pending /\ first_call = None
    /\ star = None /\ companion = None /\ spc = "idle"
    /\ SystemIdle
    /\ SeedIdle
    /\ body = None

\* one call roll_dice(number_of_dice, modifier)
CallRollDice ==
    /\ dice.result = None
    /\ \E r \in RollDice(dice.number_of_dice, dice.modifier) :
          dice' = [dice EXCEPT !.result = Some(r)]
    /\ UNCHANGED <<<<tree, point, result, first_call>>, <<star, companion, spc>>, systemVars, seedVars, body>>

SpecRollDice == InitRollDice /\ [][CallRollDice]_vars

(***************************************************************************)
(* Star construction on its own: Star(mass, age, guarantee_garden_world)   *)
(* for every tabulated mass and every age up to MaxAge in steps of 0.1,    *)
(* each possibly left out (None) and then rolled.                          *)
(***************************************************************************)
MaxAge == 1350

ArgAges == {a \in 0..MaxAge : a % 10 = 0}

InitStar ==
    /\ star \in [mass : {Some(m) : m \in ArgMasses} \cup {None},
                 age : {Some(a) : a \in ArgAges} \cup {None},
                 guarantee_garden_world : BOOLEAN]
    /\ companion = None
    /\ spc = "args"
    /\ tree = {} /\ point = 0 /\ result = Pending /\ first_call = None
    /\ SystemIdle
    /\ SeedIdle
    /\ dice = None
    /\ body = None

\* every mass generate_stellar_mass can return, without and with garden mode
GeneratedMasses(garden) ==
    {GenerateStellarMass(garden, f, s) :
        f \in StellarMassFirstRolls(garden), s \in RollDice(3, 0)}

\* every age generate_stellar_age can return, without and with garden mode
GeneratedAges(garden) ==
    {GenerateStellarAge(r, a, b) :
        r \in StellarAgeRolls(garden), a \in RollDice(1, -1), b \in RollDice(1, -1)}

\* Star.__init__
ConstructStar ==
    /\ spc = "args"
    /\ LET garden == star.guarantee_garden_world
       IN \E mass \in IF star.mass # None THEN {Val(star.mass)}
                      ELSE GeneratedMasses(garden),
             age \in IF star.age # None THEN {Val(star.age)}
                     ELSE GeneratedAges(garden) :
             \E dwarf_roll \in DwarfRolls(mass, age),
                giant_roll \in GiantRolls(mass, age) :
                star' = StarInit(mass, age, garden, dwarf_roll, giant_roll)
    /\ spc' = "constructed"
    /\ UNCHANGED companion
    /\ UNCHANGED <<tree, point, result, first_call>>
    /\ UNCHANGED <<systemVars, seedVars, dice, body>>

SpecStar == InitStar /\ [][ConstructStar]_vars

(***************************************************************************)
(* generate_companion_mass on its own, for a primary of every tabulated    *)
(* mass.                                                                   *)
(***************************************************************************)
InitCompanionMass ==
    /\ \E m \in ArgMasses : star = StarInit(m, 0, FALSE, 0, 0)
    /\ companion = None
    /\ spc = "constructed"
    /\ tree = {} /\ point = 0 /\ result = Pending /\ first_call = None
    /\ SystemIdle
    /\ SeedIdle
    /\ dice = None
    /\ body = None

\* CompanionStar.generate_companion_mass for a companion of the star
CompanionMass ==
    /\ spc = "constructed"
    /\ \E mass_roll \in RollDice(1, -1) :
       \E dice_sum \in CompanionDiceSums(mass_roll) :
           companion' = [primary_mass |-> star.mass,
                         mass_roll |-> mass_roll,
                         dice_sum |-> dice_sum,
                         mass |-> GenerateCompanionMass(star.mass, mass_roll, dice_sum)]
    /\ spc' = "companion_mass"
    /\ UNCHANGED star
    /\ UNCHANGED <<tree, point, result, first_call>>
    /\ UNCHANGED <<systemVars, seedVars, dice, body>>

SpecCompanionMass == InitCompanionMass /\ [][CompanionMass]_vars

(***************************************************************************)
(* generator.py: StarSystem.  The constructor is followed method by method *)
(* and, inside calculate_orbits, loop iteration by loop iteration.  The    *)
(* bodies of the loops over self.orbits read and write only their own      *)
(* entry, the star at its head and self.forbidden_zone, so the model       *)
(* follows the entry of one star of the system, whichever it is (idx).     *)
(* Where the constructor rolls dice for masses, ages, companion orbits,    *)
(* seeds and spacings the model follows the outcomes listed here.          *)
(***************************************************************************)
InputSample ==
    [NumberOfStarsRoll |-> {10, 11, 13, 16},
     MassFirstRoll |-> {3, 13},
     MassSecondRoll |-> {3},
     AgeRoll |-> {3, 4},
     AgeStepRoll |-> {0},
     CompanionMassRoll |-> {0},
     SeparationRoll |-> {13},
     EccentricityRoll |-> {18},
     SemiMajorAxisRoll |-> {2},
     ArrangementRoll |-> {10, 12, 14, 18},
     FirstOrbitRoll |-> {4, 10},
     \* the seed of an Eccentric star is followed at a half and at three
     \* quarters of the snow line
     EccentricSeedRoll |-> {4, 6},
     SpacingRoll |-> {3, 18},
     \* a system of three stars is followed for one outcome of each roll:
     \* small stars, the second Very Close and the third Moderate, both on
     \* eccentric orbits
     TrinaryMassFirstRoll |-> {13},
     TrinarySeparationRoll |-> <<{3}, {4}>>,
     \* the 3d6 outcomes followed where place_gas_giants decides on a slot,
     \* and where it rolls a size
     DecisionRoll |-> {6, 7, 8, 9, 14, 15, 16},
     SizeRoll |-> {3, 8, 13, 18},
     \* the 3d6 outcomes followed where fill_remaining_orbits rolls for the
     \* contents of a slot, before its modifier
     ContentsRoll |-> {3, 10, 18},
     \* the outcomes followed of roll_dice(3) and roll_dice(2) in
     \* generate_rotation_period and of roll_dice(3) in generate_axial_tilt,
     \* and the total_tidal_effect values a body is followed with
     RotationRoll |-> {3, 10, 16, 18},
     SpecialRotationRoll |-> {6, 7, 12},
     AxialTiltRoll |-> 3..18,
     TidalEffect |-> {0, 30, 49, 50, 51},
     \* the outcomes followed of roll_dice(3) in generate_moon_size, and of
     \* the dice of generate_satellite_orbital_radius: roll_dice(3, 3) and
     \* the roll_dice(2) added to it from 15 on, and roll_dice(2, modifier)
     \* less its modifier
     MoonSizeRoll |-> {10, 16},
     GasGiantRadiusRoll |-> {6, 7, 8, 9, 15},
     GasGiantRadiusExtraRoll |-> {2, 3},
     TerrestrialRadiusRoll |-> {2, 3, 4, 5, 6}]

\* StarSystem.generate_number_of_stars, given the roll
GenerateNumberOfStars(roll) == LookUp(multiple_stars_tree, roll)

\* CompanionStar.__init__, given the rolls of its methods
CompanionStarInit(designation, primary_star, mass_roll, dice_sum, dwarf_roll, giant_roll, separation_roll, eccentricity_roll, axis_roll) ==
    LET garden == primary_star.guarantee_garden_world
        mass == GenerateCompanionMass(primary_star.mass, mass_roll, dice_sum)
        base == StarInit(mass, primary_star.age, garden, dwarf_roll, giant_roll)
        row == LookUp(orbital_separation_tree,
                      separation_roll + OrbitalSeparationModifier(garden, designation))
        separation == row[1]
        radius_multiplier == row[2]
        eccentricity == LookUp(stellar_orbital_eccentricity_tree,
                               eccentricity_roll + EccentricityModifier(separation))
        semi_major_axis == axis_roll * radius_multiplier
    IN base @@ [class |-> "CompanionStar",
                designation |-> designation,
                primary_star |-> 1,
                separation |-> separation,
                eccentricity |-> eccentricity,
                semi_major_axis |-> semi_major_axis,
                orbital_period |->
                    CalculateStellarOrbitalPeriod(semi_major_axis, mass,
                                                  primary_star.mass)]

\* a plausible slip: the factor 3 applied the other way round
ZoneOfInverted(s) ==
    <<((100 - s.eccentricity) * s.semi_major_axis * 3) \div 100,
      ((100 + s.eccentricity) * s.semi_major_axis) \div 300>>

\* the zone calculate_forbidden_zone derives from one companion:
\* [(1 - e) * a / 3, (1 + e) * a * 3]
ZoneOf(s) ==
    <<((100 - s.eccentricity) * s.semi_major_axis) \div 300,
      ((100 + s.eccentricity) * s.semi_major_axis * 3) \div 100>>

RECURSIVE CalculateForbiddenZone(_)
\* StarSystem.calculate_forbidden_zone over a list of stars
CalculateForbiddenZone(ss) ==
    IF ss = <<>> THEN <<>>
    ELSE (IF Head(ss).class = "CompanionStar" THEN <<ZoneOf(Head(ss))>> ELSE <<>>)
            \o CalculateForbiddenZone(Tail(ss))

\* a plausible slip: the two comparisons turned round
InForbiddenZoneSwapped(zones, radius) ==
    \E z \in 1..Len(zones) : radius <= zones[z][1] /\ radius >= zones[z][2]

\* StarSystem.in_forbidden_zone
InForbiddenZone(zones, radius) ==
    \E z \in 1..Len(zones) : radius >= zones[z][1] /\ radius <= zones[z][2]

\* the arrangements calculate_gas_giants can give one star
ArrangementsOf(s, zones) ==
    IF InForbiddenZone(zones, s.snow_line_radius) THEN {"No Gas Giant"}
    ELSE {LookUp(gas_giant_arrangement_tree, r) :
             r \in RollDice(3, 0) \cap InputSample.ArrangementRoll}

\* the string "Gas Giant" that marks a seeded slot until a GasGiant replaces it
PendingGasGiant == [kind |-> "str", value |-> "Gas Giant"]

\* the slot calculate_first_orbit seeds for a star, given the roll it makes
FirstOrbitSlot(s, roll) ==
    IF s.gas_giant_arrangement = "Conventional Gas Giant"
    THEN <<((20 + roll) * s.snow_line_radius) \div 20, PendingGasGiant>>
    ELSE IF s.gas_giant_arrangement = "Eccentric Gas Giant"
    THEN <<(roll * s.snow_line_radius) \div 8, PendingGasGiant>>
    ELSE <<((10 + roll) * s.inner_limit_radius) \div 10, PendingGasGiant>>

\* the rolls calculate_first_orbit can make for a star
FirstOrbitRolls(s) ==
    IF s.gas_giant_arrangement = "Conventional Gas Giant" THEN RollDice(2, -2)
    ELSE IF s.gas_giant_arrangement = "Eccentric Gas Giant" THEN RollDice(1, 0)
    ELSE IF s.gas_giant_arrangement = "Epistellar Gas Giant" THEN RollDice(3, 0)
    ELSE {0}

\* the order of sorted() on two slots, which are lists: by radius, a slot
\* without contents before one with; equal slots keep their order
SlotBefore(sl, j, k) ==
    \/ sl[j][1] < sl[k][1]
    \/ sl[j][1] = sl[k][1] /\ Len(sl[j]) < Len(sl[k])
    \/ sl[j][1] = sl[k][1] /\ Len(sl[j]) = Len(sl[k]) /\ j < k

\* a plausible slip: the slots left in the order they were appended
SortSlotsDropped(sl) == sl

\* sorted(orbit[1:]): each slot goes to the place given by the number of
\* slots before it
SortSlots(sl) ==
    [r \in 1..Len(sl) |->
        sl[CHOOSE k \in 1..Len(sl) :
              Cardinality({j \in 1..Len(sl) : SlotBefore(sl, j, k)}) = r - 1]]

\* the spacing factors one roll against orbital_spacing_tree can give
SpacingFactors ==
    {LookUp(orbital_spacing_tree, r) : r \in RollDice(3, 0) \cap InputSample.SpacingRoll}

\* a plausible slip: the radius never taken below the 0.15 AU floor
InwardRadiusClamped(radius, test_factor, step_factor) ==
    Max(150, IF radius * 10 > (radius - 150) * test_factor
             THEN radius - 150
             ELSE (radius * 10) \div step_factor)

\* the candidate radius after one iteration of the inward loop; test_factor
\* is the factor rolled in the condition, step_factor the one rolled again
\* for the division
InwardRadius(radius, test_factor, step_factor) ==
    IF radius * 10 > (radius - 150) * test_factor
    THEN radius - 150
    ELSE (radius * 10) \div step_factor

\* the candidate radius after one iteration of the outward loop
OutwardRadius(radius, test_factor, step_factor) ==
    IF radius * test_factor < (radius + 150) * 10
    THEN radius + 150
    ELSE (radius * step_factor) \div 10

\* the radius the inward phase starts from when no slot was seeded
InwardStartRadius(s, roll) == (s.outer_limit_radius * 20) \div (20 + roll)

\* the radius the outward phase starts from when the entry has no slot:
\* (1 + 0.05 * roll) / outer_limit_radius
OutwardStartRadius(s, roll) == ((20 + roll) * 50000) \div s.outer_limit_radius

\* the entries of self.orbits whose placement is followed have at most this
\* many slots
MaxPlacedSlots == 4

\* the slot is the one calculate_first_orbit seeded:
\* len(orbit[i]) > 1 and orbit[i][1] == "Gas Giant"
IsSeededSlot(s) == Len(s) > 1 /\ s[2] = PendingGasGiant

\* place_gas_giants: the roll a slot at or beyond the snow line must not exceed
BeyondThreshold(arrangement) ==
    IF arrangement = "Conventional Gas Giant" THEN 15 ELSE 14

\* a plausible slip: the thresholds of the two inner arrangements exchanged
WithinThresholdExchanged(arrangement) ==
    IF arrangement = "Eccentric Gas Giant" THEN 6 ELSE 8

\* place_gas_giants: the roll a slot at or within the snow line must not
\* exceed, for the two arrangements that test such a slot
WithinThreshold(arrangement) ==
    IF arrangement = "Eccentric Gas Giant" THEN 8 ELSE 6

\* place_gas_giants: the arrangement has a test for slots at or within the
\* snow line
TestsWithin(arrangement) ==
    arrangement \in {"Eccentric Gas Giant", "Epistellar Gas Giant"}

\* the modifier of the size roll of another slot: 4 if orbit[i][0] <=
\* orbit[0].snow_line_radius else 0, and none in the Conventional branch
SizeModifier(arrangement, radius, snow) ==
    IF TestsWithin(arrangement) /\ radius <= snow THEN 4 ELSE 0

\* GasGiant(primary_star, orbit, size) raises: World.look_up_world_type has no
\* branch for a size other than Tiny, Small, Standard and Large, and
\* GasGiant.generate_world_size none other than Small, Standard and Large
GasGiantRaises(size) == size \notin {"Small", "Standard", "Large"}

\* GasGiant(primary_star, orbit, size), the fields place_gas_giants decides
GasGiantInit(primary_star, orbit_radius, size) ==
    [class |-> "GasGiant",
     primary_star |-> primary_star,
     semi_major_axis |-> orbit_radius,
     size |-> size,
     type |-> IF size = "Small" THEN "Small (Gas Giant)"
              ELSE IF size = "Standard" THEN "Standard (Gas Giant)"
              ELSE "Large (Gas Giant)"]

\* the slot holds a GasGiant
HoldsGasGiant(s) == Len(s) > 1 /\ "class" \in DOMAIN s[2] /\ s[2].class = "GasGiant"

\* min(orbit[1:], key=lambda x: abs(x[0] - target))[0]: the radius of the
\* first of the slots at the least distance from target
ClosestRadius(o, target) ==
    LET k == CHOOSE k \in 2..Len(o) :
                /\ \A j \in 2..Len(o) :
                      Abs(o[k][1] - target) <= Abs(o[j][1] - target)
                /\ \A j \in 2..(k - 1) :
                      Abs(o[j][1] - target) > Abs(o[k][1] - target)
    IN o[k][1]

\* a plausible slip: the amounts for the two neighbours exchanged
FillModifierExchanged(o, i, s, zones) ==
    LET radius == o[i + 1][1]
        limits == IF \/ radius = ClosestRadius(o, s.inner_limit_radius)
                     \/ radius = ClosestRadius(o, s.outer_limit_radius)
                  THEN -3 ELSE 0
        next_giant == IF i < Len(o) - 1 /\ HoldsGasGiant(o[i + 2]) THEN -3 ELSE 0
        previous_giant == IF i > 1 /\ HoldsGasGiant(o[i]) THEN -6 ELSE 0
        zone == IF \E z \in 1..Len(zones) :
                      \/ radius = ClosestRadius(o, zones[z][1])
                      \/ radius = ClosestRadius(o, zones[z][2])
                THEN -6 ELSE 0
    IN limits + next_giant + previous_giant + zone

\* fill_remaining_orbits: the modifier of the roll for orbit[i] of the entry
\* o of star s
FillModifier(o, i, s, zones) ==
    LET radius == o[i + 1][1]
        limits == IF \/ radius = ClosestRadius(o, s.inner_limit_radius)
                     \/ radius = ClosestRadius(o, s.outer_limit_radius)
                  THEN -3 ELSE 0
        next_giant == IF i < Len(o) - 1 /\ HoldsGasGiant(o[i + 2]) THEN -6 ELSE 0
        previous_giant == IF i > 1 /\ HoldsGasGiant(o[i]) THEN -3 ELSE 0
        zone == IF \E z \in 1..Len(zones) :
                      \/ radius = ClosestRadius(o, zones[z][1])
                      \/ radius = ClosestRadius(o, zones[z][2])
                THEN -6 ELSE 0
    IN limits + next_giant + previous_giant + zone

\* Terrestrial(primary_star, orbit, size) raises: generate_volcanic_activity
\* divides surface_gravity by primary_star.age
TerrestrialRaises(primary_star) == primary_star.age = 0

\* a plausible slip: the first two arguments exchanged
TerrestrialInitExchanged(primary_star, orbit_radius, size) ==
    [class |-> "Terrestrial",
     primary_star |-> orbit_radius,
     semi_major_axis |-> primary_star,
     size |-> size]

\* Terrestrial(primary_star, orbit, size), the fields fill_remaining_orbits
\* decides
TerrestrialInit(primary_star, orbit_radius, size) ==
    [class |-> "Terrestrial",
     primary_star |-> primary_star,
     semi_major_axis |-> orbit_radius,
     size |-> size]

InitSystem ==
    /\ config \in [is_in_open_cluster : BOOLEAN, guarantee_garden_world : {FALSE}]
    /\ number_of_stars = 0
    /\ stars = <<>>
    /\ forbidden_zone = <<>>
    /\ gas_giants = <<>>
    /\ idx = 0
    /\ orbit = <<>>
    /\ temp_radius = 0
    /\ slot = 0
    /\ rolled = None
    /\ pc = "generate_number_of_stars"
    /\ tree = {} /\ point = 0 /\ result = Pending /\ first_call = None
    /\ star = None /\ companion = None /\ spc = "idle"
    /\ SeedIdle
    /\ dice = None
    /\ body = None

\* self.number_of_stars = self.generate_number_of_stars(is_in_open_cluster)
NumberOfStars ==
    /\ pc = "generate_number_of_stars"
    /\ \E roll \in RollDice(3, IF config.is_in_open_cluster THEN 3 ELSE 0)
                      \cap InputSample.NumberOfStarsRoll :
          number_of_stars' = GenerateNumberOfStars(roll)
    /\ config' = [guarantee_garden_world |-> config.guarantee_garden_world]
    /\ pc' = "generate_stars"
    /\ UNCHANGED <<stars, forbidden_zone, gas_giants, idx, orbit, temp_radius>>
    /\ UNCHANGED <<slot, rolled, <<tree, point, result, first_call>>, <<star, companion, spc>>, seedVars, dice, body>>

\* generate_stars, first iteration: Star(guarantee_garden_world=...)
GeneratePrimaryStar ==
    /\ pc = "generate_stars"
    /\ stars = <<>>
    /\ LET garden == config.guarantee_garden_world
       IN \E first_roll \in StellarMassFirstRolls(garden)
                              \cap (IF number_of_stars = 3
                                    THEN InputSample.TrinaryMassFirstRoll
                                    ELSE InputSample.MassFirstRoll),
             second_roll \in RollDice(3, 0) \cap InputSample.MassSecondRoll,
             age_roll \in StellarAgeRolls(garden) \cap InputSample.AgeRoll,
             roll_a \in RollDice(1, -1) \cap InputSample.AgeStepRoll,
             roll_b \in RollDice(1, -1) \cap InputSample.AgeStepRoll :
           LET mass == GenerateStellarMass(garden, first_roll, second_roll)
               age == GenerateStellarAge(age_roll, roll_a, roll_b)
           IN \E dwarf_roll \in DwarfRolls(mass, age),
                 giant_roll \in GiantRolls(mass, age) :
                 stars' = <<StarInit(mass, age, garden, dwarf_roll, giant_roll)
                               @@ [class |-> "Star"]>>
    /\ UNCHANGED <<config, number_of_stars, forbidden_zone, gas_giants, idx, orbit,
                   temp_radius, pc>>
    /\ UNCHANGED <<slot, rolled, <<tree, point, result, first_call>>, <<star, companion, spc>>, seedVars, dice, body>>

\* generate_stars, later iterations: CompanionStar(designation=i, primary_star=stars[0])
GenerateCompanionStar ==
    /\ pc = "generate_stars"
    /\ stars # <<>>
    /\ Len(stars) < number_of_stars
    /\ LET designation == Len(stars)
           primary == stars[1]
       IN \E mass_roll \in RollDice(1, -1) \cap InputSample.CompanionMassRoll,
             separation_roll \in
                 RollDice(3, 0) \cap (IF number_of_stars = 3
                                      THEN InputSample.TrinarySeparationRoll[designation]
                                      ELSE InputSample.SeparationRoll),
             eccentricity_roll \in RollDice(3, 0) \cap InputSample.EccentricityRoll,
             axis_roll \in RollDice(2, 0) \cap InputSample.SemiMajorAxisRoll :
          \E dice_sum \in CompanionDiceSums(mass_roll) :
             LET mass == GenerateCompanionMass(primary.mass, mass_roll, dice_sum)
             IN \E dwarf_roll \in DwarfRolls(mass, primary.age),
                   giant_roll \in GiantRolls(mass, primary.age) :
                   stars' = Append(stars,
                               CompanionStarInit(designation, primary, mass_roll,
                                   dice_sum, dwarf_roll, giant_roll, separation_roll,
                                   eccentricity_roll, axis_roll))
    /\ UNCHANGED <<config, number_of_stars, forbidden_zone, gas_giants, idx, orbit,
                   temp_radius, pc>>
    /\ UNCHANGED <<slot, rolled, <<tree, point, result, first_call>>, <<star, companion, spc>>, seedVars, dice, body>>

\* self.forbidden_zone = self.calculate_forbidden_zone(), once all stars exist
ForbiddenZone ==
    /\ pc = "generate_stars"
    /\ Len(stars) = number_of_stars
    /\ forbidden_zone' = CalculateForbiddenZone(stars)
    /\ pc' = "calculate_gas_giants"
    /\ UNCHANGED <<config, number_of_stars, stars, gas_giants, idx, orbit, temp_radius>>
    /\ UNCHANGED <<slot, rolled, <<tree, point, result, first_call>>, <<star, companion, spc>>, seedVars, dice, body>>

\* self.gas_giants = self.calculate_gas_giants()
CalculateGasGiants ==
    /\ pc = "calculate_gas_giants"
    /\ \E g \in [1..Len(stars) ->
                    {"No Gas Giant", "Conventional Gas Giant", "Eccentric Gas Giant",
                     "Epistellar Gas Giant"}] :
          /\ \A i \in 1..Len(stars) : g[i] \in ArrangementsOf(stars[i], forbidden_zone)
          /\ gas_giants' = g
    /\ pc' = "set_gas_giant_arrangements"
    /\ UNCHANGED <<config, number_of_stars, stars, forbidden_zone, idx, orbit,
                   temp_radius>>
    /\ UNCHANGED <<slot, rolled, <<tree, point, result, first_call>>, <<star, companion, spc>>, seedVars, dice, body>>

\* self.set_gas_giant_arrangements()
SetGasGiantArrangements ==
    /\ pc = "set_gas_giant_arrangements"
    /\ stars' = [i \in 1..Len(stars) |->
                    [stars[i] EXCEPT !.gas_giant_arrangement = gas_giants[i]]]
    /\ pc' = "calculate_first_orbit"
    /\ UNCHANGED <<config, number_of_stars, forbidden_zone, gas_giants, idx, orbit,
                   temp_radius>>
    /\ UNCHANGED <<slot, rolled, <<tree, point, result, first_call>>, <<star, companion, spc>>, seedVars, dice, body>>

\* calculate_first_orbit, the iteration for one star of the system
CalculateFirstOrbit ==
    /\ pc = "calculate_first_orbit"
    /\ \E i \in 1..Len(stars) :
          /\ idx' = i
          /\ IF stars[i].gas_giant_arrangement = "No Gas Giant"
             THEN orbit' = <<i>>
             ELSE \E roll \in FirstOrbitRolls(stars[i])
                                \cap (IF stars[i].gas_giant_arrangement
                                          = "Eccentric Gas Giant"
                                      THEN InputSample.EccentricSeedRoll
                                      ELSE InputSample.FirstOrbitRoll) :
                     orbit' = <<i, FirstOrbitSlot(stars[i], roll)>>
    /\ pc' = "inward_start"
    /\ UNCHANGED <<config, number_of_stars, stars, forbidden_zone, gas_giants,
                   temp_radius>>
    /\ UNCHANGED <<slot, rolled, <<tree, point, result, first_call>>, <<star, companion, spc>>, seedVars, dice, body>>

\* calculate_orbits: the choice of temp_radius before the inward loop
InwardStart ==
    /\ pc = "inward_start"
    /\ IF Len(orbit) > 1
       THEN /\ temp_radius' = orbit[2][1]
            /\ UNCHANGED orbit
       ELSE \E roll \in RollDice(1, 0) \cap InputSample.FirstOrbitRoll :
               LET r == InwardStartRadius(stars[idx], roll)
               IN /\ temp_radius' = r
                  /\ orbit' = IF ~InForbiddenZone(forbidden_zone, r)
                              THEN Append(orbit, <<r>>) ELSE orbit
    /\ pc' = "inward"
    /\ UNCHANGED <<config, number_of_stars, stars, forbidden_zone, gas_giants, idx>>
    /\ UNCHANGED <<slot, rolled, <<tree, point, result, first_call>>, <<star, companion, spc>>, seedVars, dice, body>>

\* calculate_orbits: one iteration of the inward loop
InwardStep ==
    /\ pc = "inward"
    /\ \E test_factor \in SpacingFactors, step_factor \in SpacingFactors :
          LET r == InwardRadius(temp_radius, test_factor, step_factor)
              inner == stars[idx].inner_limit_radius
          IN /\ temp_radius' = r
             /\ orbit' = IF ~InForbiddenZone(forbidden_zone, r) /\ r >= inner
                         THEN Append(orbit, <<r>>) ELSE orbit
             /\ pc' = IF r >= inner THEN "inward" ELSE "outward_start"
    /\ UNCHANGED <<config, number_of_stars, stars, forbidden_zone, gas_giants, idx>>
    /\ UNCHANGED <<slot, rolled, <<tree, point, result, first_call>>, <<star, companion, spc>>, seedVars, dice, body>>

\* calculate_orbits: the choice of temp_radius before the outward loop
OutwardStart ==
    /\ pc = "outward_start"
    /\ IF Len(orbit) > 1
       THEN /\ temp_radius' = orbit[2][1]
            /\ UNCHANGED orbit
       ELSE \E roll \in RollDice(1, 0) \cap InputSample.FirstOrbitRoll :
               LET r == OutwardStartRadius(stars[idx], roll)
               IN /\ temp_radius' = r
                  /\ orbit' = IF ~InForbiddenZone(forbidden_zone, r)
                              THEN Append(orbit, <<r>>) ELSE orbit
    /\ pc' = "outward"
    /\ UNCHANGED <<config, number_of_stars, stars, forbidden_zone, gas_giants, idx>>
    /\ UNCHANGED <<slot, rolled, <<tree, point, result, first_call>>, <<star, companion, spc>>, seedVars, dice, body>>

\* calculate_orbits: one iteration of the outward loop
OutwardStep ==
    /\ pc = "outward"
    /\ \E test_factor \in SpacingFactors, step_factor \in SpacingFactors :
          LET r == OutwardRadius(temp_radius, test_factor, step_factor)
              outer == stars[idx].outer_limit_radius
          IN /\ temp_radius' = r
             /\ orbit' = IF ~InForbiddenZone(forbidden_zone, r) /\ r <= outer
                         THEN Append(orbit, <<r>>) ELSE orbit
             /\ pc' = IF r <= outer THEN "outward" ELSE "sort"
    /\ UNCHANGED <<config, number_of_stars, stars, forbidden_zone, gas_giants, idx>>
    /\ UNCHANGED <<slot, rolled, <<tree, point, result, first_call>>, <<star, companion, spc>>, seedVars, dice, body>>

\* calculate_orbits: orbit[1:] = sorted(orbit[1:]); the local temp_radius is
\* not read again
SortOrbit ==
    /\ pc = "sort"
    /\ orbit' = IF Len(orbit) > 1 THEN <<orbit[1]>> \o SortSlots(SubSeq(orbit, 2, Len(orbit)))
                ELSE orbit
    /\ temp_radius' = 0
    /\ pc' = "place_gas_giants"
    /\ UNCHANGED <<config, number_of_stars, stars, forbidden_zone, gas_giants, idx>>
    /\ UNCHANGED <<slot, rolled, <<tree, point, result, first_call>>, <<star, companion, spc>>, seedVars, dice, body>>

\* place_gas_giants, inner loop: the iteration that meets the seeded slot
PlaceSeededGasGiant ==
    /\ pc = "place_gas_giants"
    /\ gas_giants[idx] # "No Gas Giant"
    /\ Len(orbit) - 1 <= MaxPlacedSlots
    /\ slot + 1 <= Len(orbit) - 1
    /\ LET i == slot + 1
           s == orbit[i + 1]
           modifier == 4
       IN /\ IsSeededSlot(s)
          /\ \E size_roll \in RollDice(3, 0) \cap InputSample.SizeRoll :
                LET size == LookUp(gas_giant_size_tree, size_roll + modifier)
                IN IF GasGiantRaises(size)
                   THEN /\ pc' = "raised"
                        /\ UNCHANGED orbit
                   ELSE /\ orbit' = [orbit EXCEPT ![i + 1][2] =
                                         GasGiantInit(idx, s[1], size)]
                        /\ UNCHANGED pc
          /\ slot' = i
          /\ rolled' = [decision |-> <<>>, size |-> <<3, modifier>>]
    /\ UNCHANGED <<config, number_of_stars, stars, forbidden_zone, gas_giants, idx,
                   temp_radius>>
    /\ UNCHANGED <<<<tree, point, result, first_call>>, <<star, companion, spc>>, seedVars, dice, body>>

\* place_gas_giants, inner loop: the iteration for a slot that was not seeded.
\* The first test rolls only for a slot at or beyond the snow line, the
\* second only when the first failed and the slot is at or within it.
PlaceGasGiant ==
    /\ pc = "place_gas_giants"
    /\ gas_giants[idx] # "No Gas Giant"
    /\ Len(orbit) - 1 <= MaxPlacedSlots
    /\ slot + 1 <= Len(orbit) - 1
    /\ LET i == slot + 1
           s == orbit[i + 1]
           radius == s[1]
           snow == stars[idx].snow_line_radius
           arrangement == gas_giants[idx]
           modifier == SizeModifier(arrangement, radius, snow)
       IN /\ ~IsSeededSlot(s)
          /\ \E first_roll \in RollDice(3, 0) \cap InputSample.DecisionRoll,
                second_roll \in RollDice(3, 0) \cap InputSample.DecisionRoll,
                size_roll \in RollDice(3, 0) \cap InputSample.SizeRoll :
                LET first_made == radius >= snow
                    by_first == first_made /\ first_roll <= BeyondThreshold(arrangement)
                    second_made == /\ ~by_first
                                   /\ TestsWithin(arrangement)
                                   /\ radius <= snow
                    by_second == second_made /\ second_roll <= WithinThreshold(arrangement)
                    decision == (IF first_made THEN <<first_roll>> ELSE <<>>)
                                   \o (IF second_made THEN <<second_roll>> ELSE <<>>)
                    size == LookUp(gas_giant_size_tree, size_roll + modifier)
                IN IF by_first \/ by_second
                   THEN /\ rolled' = [decision |-> decision, size |-> <<3, modifier>>]
                        /\ IF GasGiantRaises(size)
                           THEN /\ pc' = "raised"
                                /\ UNCHANGED orbit
                           ELSE /\ orbit' = [orbit EXCEPT ![i + 1] =
                                                 Append(@, GasGiantInit(idx, radius, size))]
                                /\ UNCHANGED pc
                   ELSE /\ rolled' = [decision |-> decision, size |-> <<>>]
                        /\ UNCHANGED <<orbit, pc>>
          /\ slot' = i
    /\ UNCHANGED <<config, number_of_stars, stars, forbidden_zone, gas_giants, idx,
                   temp_radius>>
    /\ UNCHANGED <<<<tree, point, result, first_call>>, <<star, companion, spc>>, seedVars, dice, body>>

\* place_gas_giants: the end of the iteration for this star, at once for a
\* star with no gas giant
PlaceGasGiantsEnd ==
    /\ pc = "place_gas_giants"
    /\ Len(orbit) - 1 <= MaxPlacedSlots
    /\ gas_giants[idx] = "No Gas Giant" \/ slot = Len(orbit) - 1
    /\ pc' = "fill_remaining_orbits"
    /\ slot' = 0
    /\ rolled' = None
    /\ UNCHANGED <<config, number_of_stars, stars, forbidden_zone, gas_giants, idx,
                   orbit, temp_radius>>
    /\ UNCHANGED <<<<tree, point, result, first_call>>, <<star, companion, spc>>, seedVars, dice, body>>

\* fill_remaining_orbits, inner loop: one iteration, for orbit[i]
FillRemainingOrbit ==
    /\ pc = "fill_remaining_orbits"
    /\ slot + 1 <= Len(orbit) - 1
    /\ LET i == slot + 1
           s == orbit[i + 1]
           modifier == FillModifier(orbit, i, stars[idx], forbidden_zone)
       IN /\ IF Len(s) > 1
             THEN /\ rolled' = None
                  /\ UNCHANGED <<orbit, pc>>
             ELSE \E roll \in RollDice(3, 0) \cap InputSample.ContentsRoll :
                     LET orbit_contents == LookUp(orbit_contents_tree, roll + modifier)
                     IN /\ rolled' = [contents |-> <<3, modifier>>]
                        /\ IF orbit_contents.kind = "list"
                           THEN IF TerrestrialRaises(stars[idx])
                                THEN /\ pc' = "raised"
                                     /\ UNCHANGED orbit
                                ELSE /\ orbit' = [orbit EXCEPT ![i + 1] =
                                                     Append(@, TerrestrialInit(idx, s[1],
                                                                 orbit_contents.value[2]))]
                                     /\ UNCHANGED pc
                           ELSE /\ orbit' = [orbit EXCEPT ![i + 1] =
                                                Append(@, orbit_contents)]
                                /\ UNCHANGED pc
          /\ slot' = i
    /\ UNCHANGED <<config, number_of_stars, stars, forbidden_zone, gas_giants, idx,
                   temp_radius>>
    /\ UNCHANGED <<<<tree, point, result, first_call>>, <<star, companion, spc>>, seedVars, dice, body>>

\* fill_remaining_orbits: the end of the iteration for this star, and with
\* it of StarSystem.__init__
FillRemainingOrbitsEnd ==
    /\ pc = "fill_remaining_orbits"
    /\ slot = Len(orbit) - 1
    /\ pc' = "done"
    /\ UNCHANGED <<config, number_of_stars, stars, forbidden_zone, gas_giants, idx,
                   orbit, temp_radius>>
    /\ UNCHANGED <<slot, rolled, <<tree, point, result, first_call>>, <<star, companion, spc>>, seedVars, dice, body>>

NextSystem ==
    \/ NumberOfStars
    \/ GeneratePrimaryStar
    \/ GenerateCompanionStar
    \/ ForbiddenZone
    \/ CalculateGasGiants
    \/ SetGasGiantArrangements
    \/ CalculateFirstOrbit
    \/ InwardStart
    \/ InwardStep
    \/ OutwardStart
    \/ OutwardStep
    \/ SortOrbit
    \/ PlaceSeededGasGiant
    \/ PlaceGasGiant
    \/ PlaceGasGiantsEnd
    \/ FillRemainingOrbit
    \/ FillRemainingOrbitsEnd

SpecSystem == InitSystem /\ [][NextSystem]_vars

(***************************************************************************)
(* calculate_orbits as one sequential computation, in which a step that    *)
(* can be taken is taken: followed from the point where the primary star   *)
(* exists, for systems of one, two and three small stars.                  *)
(***************************************************************************)
InitOrbits ==
    /\ config = [guarantee_garden_world |-> FALSE]
    /\ number_of_stars \in {1, 2, 3}
    /\ stars \in
          {<<StarInit(GenerateStellarMass(FALSE, first_roll, second_roll),
                      GenerateStellarAge(age_roll, roll_a, roll_b), FALSE, 0, 0)
                @@ [class |-> "Star"]>> :
              first_roll \in InputSample.TrinaryMassFirstRoll,
              second_roll \in InputSample.MassSecondRoll,
              age_roll \in InputSample.AgeRoll,
              roll_a \in InputSample.AgeStepRoll,
              roll_b \in InputSample.AgeStepRoll}
    /\ forbidden_zone = <<>>
    /\ gas_giants = <<>>
    /\ idx = 0
    /\ orbit = <<>>
    /\ temp_radius = 0
    /\ slot = 0
    /\ rolled = None
    /\ pc = "generate_stars"
    /\ tree = {} /\ point = 0 /\ result = Pending /\ first_call = None
    /\ star = None /\ companion = None /\ spc = "idle"
    /\ SeedIdle
    /\ dice = None
    /\ body = None

NextOrbits ==
    \/ GenerateCompanionStar
    \/ ForbiddenZone
    \/ CalculateGasGiants
    \/ SetGasGiantArrangements
    \/ CalculateFirstOrbit
    \/ InwardStart
    \/ InwardStep
    \/ OutwardStart
    \/ OutwardStep
    \/ SortOrbit

FairSpecOrbits == InitOrbits /\ [][NextOrbits]_vars /\ WF_vars(NextOrbits)

(***************************************************************************)
(* Seeded runs of script.py                                                *)
(***************************************************************************)
\* the generator behind the random module: a deterministic engine whose
\* state is set from the operating system at interpreter start and from the
\* argument by random.seed
EngineModulus == 8
MaxSeed == 1
Runs == {1, 2}

\* random.seed(a): the engine state is a function of the argument alone
SeedState(a) == (3 * a + 1) % EngineModulus

\* one draw moves the engine to its next state
Advance(s) == (5 * s + 3) % EngineModulus

\* random.randrange(1, 7) in the state s
Draw(s) == (s % 6) + 1

AdvanceN(s, n) == IF n <= 0 THEN s ELSE AdvanceN(Advance(s), n - 1)

\* the values of the next n draws
DrawSeq(s, n) == IF n <= 0 THEN <<>> ELSE <<Draw(s)>> \o DrawSeq(Advance(s), n - 1)

SumSeq(q) == IF q = <<>> THEN 0 ELSE q[1] + SumSeq(Tail(q))

\* roll_dice against the engine: the value, and the engine afterwards
RollDiceFrom(s, number_of_dice, modifier) ==
    [value |-> SumSeq(DrawSeq(s, number_of_dice)) + modifier,
     engine |-> AdvanceN(s, number_of_dice)]

\* worldtrees.py, executed once when generator.py imports it: the data of
\* these tables are rolled then, d being the draws the import consumes
special_rotation_tree(d) ==
    {Interval(0, 7, 0),
     Interval(7, 8, d[1] * 2 * 24),
     Interval(8, 9, d[2] * 5 * 24),
     Interval(9, 10, d[3] * 10 * 24),
     Interval(10, 11, d[4] * 20 * 24),
     Interval(11, 12, d[5] * 50 * 24),
     Interval(12, 13, d[6] * 100 * 24)}

axial_tilt_extended_tree(d) ==
    {Interval(1, 3, 50 + d[7] + d[8] - 2),
     Interval(3, 5, 60 + d[9] + d[10] - 2),
     Interval(5, 6, 70 + d[11] + d[12] - 2),
     Interval(6, 7, 80 + d[13] + d[14] - 2)}

axial_tilt_tree(d) ==
    {Interval(3, 7, 0 + d[15] + d[16] - 2),
     Interval(7, 10, 10 + d[17] + d[18] - 2),
     Interval(10, 13, 20 + d[19] + d[20] - 2),
     Interval(13, 15, 30 + d[21] + d[22] - 2),
     Interval(15, 17, 40 + d[23] + d[24] - 2),
     Interval(17, 19, LookUp(axial_tilt_extended_tree(d), d[25]))}

ImportDraws == 25

WorldTrees(s) ==
    LET d == DrawSeq(s, ImportDraws)
    IN [special_rotation_tree |-> special_rotation_tree(d),
        axial_tilt_tree |-> axial_tilt_tree(d)]

\* Terrestrial.calculate_rotational_period_modifier
CalculateRotationalPeriodModifier(size) ==
    CASE size = "Large" -> 6
      [] size = "Standard" -> 10
      [] size = "Small" -> 14
      [] size = "Tiny" -> 18
      [] OTHER -> 0

\* Terrestrial.generate_rotation_period followed by the axial tilt step of
\* Terrestrial.__init__; orbital_period is in hundredths of a year, and
\* orbital_period * 365.26 is kept to whole units
GenerateRotation(b, trees, s) ==
    LET r1 == RollDiceFrom(s, 3, 0)
        rotation_period_roll == r1.value
        first == b.total_tidal_effect + rotation_period_roll
                    + CalculateRotationalPeriodModifier(b.size)
        special == rotation_period_roll >= 16 \/ first > 36
        r2 == IF special THEN RollDiceFrom(r1.engine, 2, 0)
              ELSE [value |-> 0, engine |-> r1.engine]
        rotation_period ==
            IF special /\ r2.value > 6
            THEN LookUp(trees.special_rotation_tree, r2.value)
            ELSE first
        locked == \/ b.total_tidal_effect >= 50
                  \/ rotation_period * 10000 > b.orbital_period * 36526
        r3 == IF locked THEN [value |-> 0, engine |-> r2.engine]
              ELSE RollDiceFrom(r2.engine, 3, 0)
    IN [rotation_period |-> IF locked THEN (b.orbital_period * 36526) \div 10000
                            ELSE rotation_period,
        is_tidally_locked |-> locked,
        axial_tilt |-> IF locked THEN None
                       ELSE Some(LookUp(trees.axial_tilt_tree, r3.value)),
        engine |-> r3.engine]

\* what a run has computed of a terrestrial planet before its rotation; both
\* runs are given the same, as the same seed gives them the same draws
BodyArgs ==
    [size : {"Tiny", "Large"}, total_tidal_effect : {0, 12},
     orbital_period : {100, 10000}]

InitSeed ==
    /\ tree = {} /\ point = 0 /\ result = Pending /\ first_call = None
    /\ star = None /\ companion = None /\ spc = "idle"
    /\ SystemIdle
    /\ dice = None
    /\ body = None
    /\ engine = [r \in Runs |-> 0]
    /\ seed_arg = [r \in Runs |-> None]
    /\ wt = [r \in Runs |-> None]
    /\ run_result = [r \in Runs |-> None]
    /\ rpc = [r \in Runs |-> "not_started"]
    /\ body_args \in {Some(b) : b \in BodyArgs}

\* the interpreter starts: the engine is seeded from the operating system,
\* and the command line carries the seed; a run starts when the one before
\* it has finished
StartRun(r) ==
    /\ rpc[r] = "not_started"
    /\ \A q \in Runs : q < r => rpc[q] = "done"
    /\ \E s \in 0..(EngineModulus - 1), a \in 0..MaxSeed :
          /\ engine' = [engine EXCEPT ![r] = s]
          /\ seed_arg' = [seed_arg EXCEPT ![r] = Some(a)]
    /\ rpc' = [rpc EXCEPT ![r] = "import"]
    /\ UNCHANGED <<wt, run_result, body_args>>
    /\ UNCHANGED <<<<tree, point, result, first_call>>, <<star, companion, spc>>, systemVars, dice, body>>

\* script.py line 5: from stargen import generator
ImportGenerator(r) ==
    /\ rpc[r] = "import"
    /\ wt' = [wt EXCEPT ![r] = Some(WorldTrees(engine[r]))]
    /\ engine' = [engine EXCEPT ![r] = AdvanceN(engine[r], ImportDraws)]
    /\ rpc' = [rpc EXCEPT ![r] = "seed"]
    /\ UNCHANGED <<seed_arg, run_result, body_args>>
    /\ UNCHANGED <<<<tree, point, result, first_call>>, <<star, companion, spc>>, systemVars, dice, body>>

\* script.py line 18: random.seed(a=args.seed)
ApplySeed(r) ==
    /\ rpc[r] = "seed"
    /\ engine' = [engine EXCEPT ![r] = SeedState(Val(seed_arg[r]))]
    /\ rpc' = [rpc EXCEPT ![r] = "generate"]
    /\ UNCHANGED <<seed_arg, wt, run_result, body_args>>
    /\ UNCHANGED <<<<tree, point, result, first_call>>, <<star, companion, spc>>, systemVars, dice, body>>

\* the rotation and axial tilt of a terrestrial planet of the system
GenerateBody(r) ==
    /\ rpc[r] = "generate"
    /\ LET g == GenerateRotation(Val(body_args), Val(wt[r]), engine[r])
       IN /\ run_result' = [run_result EXCEPT ![r] =
                Some([rotation_period |-> g.rotation_period,
                      is_tidally_locked |-> g.is_tidally_locked,
                      axial_tilt |-> g.axial_tilt])]
          /\ engine' = [engine EXCEPT ![r] = g.engine]
    /\ rpc' = [rpc EXCEPT ![r] = "done"]
    /\ UNCHANGED <<seed_arg, wt, body_args>>
    /\ UNCHANGED <<<<tree, point, result, first_call>>, <<star, companion, spc>>, systemVars, dice, body>>

NextSeed ==
    \/ \E r \in Runs : StartRun(r)
    \/ \E r \in Runs : ImportGenerator(r)
    \/ \E r \in Runs : ApplySeed(r)
    \/ \E r \in Runs : GenerateBody(r)

SpecSeed == InitSeed /\ [][NextSeed]_vars

(***************************************************************************)
(* generator.py: the rotation of a Terrestrial, GasGiant or MajorMoon.     *)
(* The three constructors reach generate_rotation_period with the size,    *)
(* total_tidal_effect and orbital period of the body set; the model starts *)
(* there.  Periods are in ten-thousandths of their unit (a year for        *)
(* orbital_period, a day for the others), so that orbital_period * 365.26  *)
(* is exact for the orbital periods followed.                              *)
(***************************************************************************)
\* the bodies whose rotation is followed: what __init__ has set when it calls
\* generate_rotation_period (World.__init__ leaves orbital_period None for a
\* moon and is_tidally_locked False for all)
Bodies ==
    [class : {"Terrestrial"}, size : {"Tiny", "Small", "Standard", "Large"},
     total_tidal_effect : InputSample.TidalEffect, orbital_period : {Some(100), Some(10000)},
     satellite_orbital_period : {None}]
    \cup
    [class : {"GasGiant"}, size : {"Small", "Large"},
     total_tidal_effect : InputSample.TidalEffect, orbital_period : {Some(100), Some(10000)},
     satellite_orbital_period : {None}]
    \cup
    [class : {"MajorMoon"}, size : {"Tiny", "Standard"},
     total_tidal_effect : InputSample.TidalEffect, orbital_period : {None},
     satellite_orbital_period : {Some(10000), Some(1000000)}]

\* one call roll_dice(number_of_dice) as the body's constructor made it; in
\* this specification dice is the sequence of the calls made so far
Rolled(number_of_dice, r) ==
    [number_of_dice |-> number_of_dice, modifier |-> 0, result |-> Some(r)]

\* calculate_rotational_period_modifier of the three classes
RotationalPeriodModifier(b) ==
    IF b.class = "GasGiant"
    THEN (IF b.size = "Small" THEN 6 ELSE 0)
    ELSE CalculateRotationalPeriodModifier(b.size)

\* the period generate_rotation_period compares the rotation with and gives
\* a locked body: self.orbital_period * 365.26 for a planet,
\* self.satellite_orbital_period for a moon
LockedRotationPeriod(b) ==
    IF b.class = "MajorMoon" THEN Val(b.satellite_orbital_period)
    ELSE (Val(b.orbital_period) * 36526) \div 100

\* generate_rotation_period of the three classes, given its rolls: the
\* rotation_period returned and the is_tidally_locked it leaves
RotationPeriod(b, table, rotation_period_roll, special_rotation_roll) ==
    LET first == b.total_tidal_effect + rotation_period_roll
                    + RotationalPeriodModifier(b)
        special == rotation_period_roll >= 16 \/ first > 36
        rotation_period ==
            10000 * (IF special /\ special_rotation_roll > 6
                     THEN LookUp(table, special_rotation_roll)
                     ELSE first)
        locked == \/ b.total_tidal_effect >= 50
                  \/ rotation_period > LockedRotationPeriod(b)
    IN [rotation_period |-> IF locked THEN LockedRotationPeriod(b)
                            ELSE rotation_period,
        is_tidally_locked |-> locked,
        special |-> special]

InitRotation ==
    /\ tree = {} /\ point = 0 /\ result = Pending /\ first_call = None
    /\ star = None /\ companion = None /\ spc = "idle"
    /\ SystemIdle
    /\ SeedIdle
    /\ dice = None
    /\ \E b \in Bodies, d \in {[k \in 1..ImportDraws |-> 1], [k \in 1..ImportDraws |-> 6]} :
          body = b @@ [rotation_period |-> None,
                       is_tidally_locked |-> FALSE,
                       axial_tilt |-> None,
                       special_rotation_tree |-> special_rotation_tree(d),
                       axial_tilt_tree |-> axial_tilt_tree(d),
                       stage |-> "total_tidal_effect"]

\* self.rotation_period = self.generate_rotation_period()
GenerateRotationPeriod ==
    /\ body # None
    /\ body.stage = "total_tidal_effect"
    /\ \E rotation_period_roll \in RollDice(3, 0) \cap InputSample.RotationRoll,
          special_rotation_roll \in RollDice(2, 0) \cap InputSample.SpecialRotationRoll :
          LET r == RotationPeriod(body, body.special_rotation_tree,
                                  rotation_period_roll, special_rotation_roll)
          IN /\ body' = [body EXCEPT !.rotation_period = Some(r.rotation_period),
                                     !.is_tidally_locked = r.is_tidally_locked,
                                     !.stage = "rotation_period"]
             /\ dice' = dice \o <<Rolled(3, rotation_period_roll)>>
                             \o (IF r.special
                                 THEN <<Rolled(2, special_rotation_roll)>>
                                 ELSE <<>>)
    /\ UNCHANGED <<<<tree, point, result, first_call>>, <<star, companion, spc>>, systemVars, seedVars>>

GenerateAxialTiltUnguarded ==
    /\ body # None
    /\ body.stage = "rotation_period"
    /\ \E roll \in RollDice(3, 0) \cap InputSample.AxialTiltRoll :
          /\ body' = [body EXCEPT !.axial_tilt =
                                      Some(LookUp(body.axial_tilt_tree, roll)),
                                  !.stage = "axial_tilt"]
          /\ dice' = Append(dice, Rolled(3, roll))
    /\ UNCHANGED <<<<tree, point, result, first_call>>, <<star, companion, spc>>, systemVars, seedVars>>

\* if not self.is_tidally_locked: self.axial_tilt = self.generate_axial_tilt()
GenerateAxialTilt ==
    /\ body # None
    /\ body.stage = "rotation_period"
    /\ IF body.is_tidally_locked
       THEN body' = [body EXCEPT !.stage = "axial_tilt"] /\ UNCHANGED dice
       ELSE \E roll \in RollDice(3, 0) \cap InputSample.AxialTiltRoll :
               /\ body' = [body EXCEPT !.axial_tilt =
                                           Some(LookUp(body.axial_tilt_tree, roll)),
                                       !.stage = "axial_tilt"]
               /\ dice' = Append(dice, Rolled(3, roll))
    /\ UNCHANGED <<<<tree, point, result, first_call>>, <<star, companion, spc>>, systemVars, seedVars>>

NextRotation ==
    \/ GenerateRotationPeriod
    \/ GenerateAxialTilt

SpecRotation == InitRotation /\ [][NextRotation]_vars

(***************************************************************************)
(* generator.py: the major moons of one planet.  Planet.generate_major_moons *)
(* builds MajorMoon(self) moons[1] times; each constructor rolls a size and *)
(* an orbital radius, re-rolls the radius while it is illegal and returns,  *)
(* and the moon is then appended to the planet's major_moons.  Diameters    *)
(* and radii are in thousandths of an Earth diameter.                      *)
(***************************************************************************)
moon_size_tree == {Interval(0, 12, -3), Interval(12, 15, -2), Interval(15, 101, -1)}

size_list == <<"Tiny", "Small", "Standard", "Large">>

\* size_list.index(size), counted from 0
SizeIndex(size) == (CHOOSE k \in 1..Len(size_list) : size_list[k] = size) - 1

\* the most major moons a planet is followed with
MaxMoons == 3

\* the planets whose moons are followed, as they are when generate_major_moons
\* is called: a gas giant is 2.88 or 12.46 Earth diameters across (mass and
\* density of the Small and the Large row)
Planets ==
    [class : {"Terrestrial"}, size : {"Standard", "Large"}, diameter : {300, 1000},
     moons : {<<0, n>> : n \in 1..MaxMoons}]
    \cup
    [class : {"GasGiant"}, size : {"Small"}, diameter : {2880},
     moons : {<<0, n, 0>> : n \in 1..MaxMoons}]
    \cup
    [class : {"GasGiant"}, size : {"Large"}, diameter : {12460},
     moons : {<<0, n, 0>> : n \in 1..MaxMoons}]

\* MajorMoon.generate_moon_size(planet_size), given the roll
GenerateMoonSize(planet_size, roll) ==
    size_list[Max(SizeIndex(planet_size) + LookUp(moon_size_tree, roll), 0) + 1]

\* MajorMoon.generate_satellite_orbital_radius: the radii it can return
SatelliteOrbitalRadii(planet, moon_size) ==
    IF planet.class = "GasGiant"
    THEN LET first == RollDice(3, 3) \cap InputSample.GasGiantRadiusRoll
         IN {(r * planet.diameter) \div 2 :
                r \in {a \in first : a < 15}
                       \cup {a + b : a \in {c \in first : c >= 15},
                                     b \in RollDice(2, 0)
                                              \cap InputSample.GasGiantRadiusExtraRoll}}
    ELSE LET difference == SizeIndex(planet.size) - SizeIndex(moon_size)
             modifier == IF difference = 2 THEN 2
                         ELSE IF difference = 1 THEN 4 ELSE 0
         IN {((r + modifier) * 5 * planet.diameter) \div 2 :
                r \in RollDice(2, 0) \cap InputSample.TerrestrialRadiusRoll}

\* abs()

\* a plausible slip: the radius compared with the last moon placed only
IllegalOrbitLastOnly(planet, major_moons, radius) ==
    LET modifier == IF planet.class = "Terrestrial" THEN 5 ELSE 1
        moon == major_moons[Len(major_moons)]
    IN major_moons # <<>>
       /\ Abs(radius - moon.satellite_orbital_radius) < planet.diameter * modifier

\* MajorMoon.illegal_orbit
IllegalOrbit(planet, major_moons, radius) ==
    LET modifier == IF planet.class = "Terrestrial" THEN 5 ELSE 1
    IN \E k \in 1..Len(major_moons) :
          Abs(radius - major_moons[k].satellite_orbital_radius)
             < planet.diameter * modifier

InitMoons ==
    /\ tree = {} /\ point = 0 /\ result = Pending /\ first_call = None
    /\ star = None /\ companion = None /\ spc = "idle"
    /\ SystemIdle
    /\ SeedIdle
    /\ dice = None
    /\ \E planet \in Planets :
          body = planet @@ [major_moons |-> <<>>, moon |-> None,
                            stage |-> "generate_major_moons"]

\* MajorMoon(self), up to self.satellite_orbital_radius =
\* self.generate_satellite_orbital_radius()
NewMajorMoon ==
    /\ body # None
    /\ body.stage = "generate_major_moons"
    /\ body.moon = None
    /\ Len(body.major_moons) < body.moons[2]
    /\ \E roll \in RollDice(3, 0) \cap InputSample.MoonSizeRoll :
          \E size \in {GenerateMoonSize(IF body.class = "GasGiant" THEN "Large"
                                         ELSE body.size, roll)} :
          \E radius \in SatelliteOrbitalRadii(body, size) :
             body' = [body EXCEPT !.moon =
                         Some([size |-> size, satellite_orbital_radius |-> radius])]
    /\ UNCHANGED <<<<tree, point, result, first_call>>, <<star, companion, spc>>, systemVars, seedVars, dice>>

\* readjust_satellite_orbital_radius: one pass of its while loop, entered
\* only when the planet has a moon already
ReadjustSatelliteOrbitalRadius ==
    /\ body # None
    /\ body.stage = "generate_major_moons"
    /\ body.moon # None
    /\ Len(body.major_moons) >= 1
    /\ IllegalOrbit(body, body.major_moons, Val(body.moon).satellite_orbital_radius)
    /\ \E radius \in SatelliteOrbitalRadii(body, Val(body.moon).size) :
          body' = [body EXCEPT !.moon =
                      Some([Val(body.moon) EXCEPT !.satellite_orbital_radius = radius])]
    /\ UNCHANGED <<<<tree, point, result, first_call>>, <<star, companion, spc>>, systemVars, seedVars, dice>>

\* the rest of MajorMoon.__init__, which leaves the radius as it is, and
\* self.major_moons.append(...)
AppendMajorMoon ==
    /\ body # None
    /\ body.stage = "generate_major_moons"
    /\ body.moon # None
    /\ \/ Len(body.major_moons) = 0
       \/ ~IllegalOrbit(body, body.major_moons, Val(body.moon).satellite_orbital_radius)
    /\ body' = [body EXCEPT !.major_moons = Append(@, Val(body.moon)),
                            !.moon = None]
    /\ UNCHANGED <<<<tree, point, result, first_call>>, <<star, companion, spc>>, systemVars, seedVars, dice>>

\* generate_major_moons returns
MajorMoonsDone ==
    /\ body # None
    /\ body.stage = "generate_major_moons"
    /\ body.moon = None
    /\ Len(body.major_moons) = body.moons[2]
    /\ body' = [body EXCEPT !.stage = "major_moons"]
    /\ UNCHANGED <<<<tree, point, result, first_call>>, <<star, companion, spc>>, systemVars, seedVars, dice>>

NextMoons ==
    \/ NewMajorMoon
    \/ ReadjustSatelliteOrbitalRadius
    \/ AppendMajorMoon
    \/ MajorMoonsDone

SpecMoons == InitMoons /\ [][NextMoons]_vars

(***************************************************************************)
(* Claims                                                                  *)
(***************************************************************************)
SeqRank(sequence) ==
    CASE sequence = "V" -> 0
      [] sequence = "IV" -> 1
      [] sequence = "III" -> 2
      [] sequence = "D" -> 3

\* the row of the evolution table whose mass range holds the mass
EvolutionRowOf(mass) ==
    (CHOOSE iv \in stellar_evolution_tree : iv.begin <= mass /\ mass < iv.end).data

\* C4: a constructed star's sequence is V when its mass row has no subgiant
\* span; otherwise it is D exactly when age > main+subgiant+giant, III exactly
\* when main+subgiant < age <= main+subgiant+giant, IV exactly when
\* main < age <= main+subgiant, and V exactly when age <= main: an age equal
\* to a threshold stays in the earlier class.
C4_SequenceByThresholds ==
    spc = "constructed" =>
        LET row == EvolutionRowOf(star.mass)
            t1 == Val(row.m_span)
            t2 == t1 + Val(row.s_span)
            t3 == t2 + Val(row.g_span)
        IN IF row.s_span = None THEN star.sequence = "V"
           ELSE /\ star.sequence = "D" <=> star.age > t3
                /\ star.sequence = "III" <=> (t2 < star.age /\ star.age <= t3)
                /\ star.sequence = "IV" <=> (t1 < star.age /\ star.age <= t2)
                /\ star.sequence = "V" <=> star.age <= t1

\* a one-solar-mass star whose age is exactly main+subgiant (11.6) is still IV
C4_Witness ==
    spc = "constructed" /\ star.mass = 100 /\ star.age = 1160 /\ star.sequence = "IV"

\* C5: the sequence of a constructed star is one of V, IV, III, D, and for
\* the same mass no later age gives an earlier class (V < IV < III < D).
C5_SequenceMonotonicInAge ==
    spc = "constructed" =>
        /\ star.sequence \in {"V", "IV", "III", "D"}
        /\ \A a2 \in ArgAges :
              a2 >= star.age =>
                 SeqRank(star.sequence)
                    <= SeqRank(CalculateStellarSequence(star.mass, a2))

\* a giant whose mass gives a white dwarf at a later age and a subgiant earlier
C5_Witness ==
    /\ spc = "constructed"
    /\ star.sequence = "III"
    /\ \E a1 \in ArgAges, a2 \in ArgAges :
          /\ a1 < star.age /\ star.age < a2
          /\ CalculateStellarSequence(star.mass, a1) = "IV"
          /\ CalculateStellarSequence(star.mass, a2) = "D"

\* C6: a constructed star whose sequence is D has no temperature (None) and
\* a luminosity of exactly 0.001, whatever its mass and age.
C6_WhiteDwarfTemperatureAndLuminosity ==
    (spc = "constructed" /\ star.sequence = "D") =>
        (star.temperature = None /\ star.luminosity = 10)

\* white dwarfs of two different mass rows and ages
C6_Witness ==
    spc = "constructed" /\ star.sequence = "D" /\ star.mass = 200 /\ star.age = 200

\* C7: after construction of a star whose sequence is D the mass field is
\* the resampled mass 0.9 + 0.05*k for a k in 0..10.
C7_WhiteDwarfMassResampled ==
    (spc = "constructed" /\ star.sequence = "D") =>
        star.mass \in {WhiteDwarfMass(k) : k \in RollDice(2, -2)}

C9_LowestSortedRangeWins ==
    /\ result.status = "returned" =>
          \E iv \in tree :
             /\ iv.begin <= point /\ point < iv.end
             /\ result.data = iv.data
             /\ \A o \in tree :
                   (o.begin <= point /\ point < o.end) =>
                      \/ iv.begin < o.begin
                      \/ iv.begin = o.begin /\ iv.end <= o.end
    /\ (result.status # "pending"
          /\ \E iv \in tree : iv.begin <= point /\ point < iv.end)
       => result.status = "returned"

\* two overlapping ranges with different outcomes hold the key
C9_Witness ==
    /\ result.status = "returned"
    /\ \E a \in tree, b \in tree :
          /\ a.begin <= point /\ point < a.end
          /\ b.begin <= point /\ point < b.end
          /\ a.begin < b.begin
          /\ a.data # b.data

\* C10: when no range holds the key, look_up fails with an out-of-domain
\* error of its own kind that names the table and the key.
C10_DistinctOutOfDomainError ==
    (result.status # "pending"
        /\ \A iv \in tree : ~(iv.begin <= point /\ point < iv.end)) =>
       /\ result.status = "raised"
       /\ result.error.exception # "IndexError"
       /\ {"table", "key"} \subseteq DOMAIN result.error

\* C1: every slot of the followed star's entry, seeded or accepted by either
\* expansion, has a radius strictly between the star's inner_limit_radius
\* and outer_limit_radius.
C1_SlotsStrictlyWithinLimits ==
    \A i \in 2..Len(orbit) :
       /\ orbit[i][1] > stars[idx].inner_limit_radius
       /\ orbit[i][1] < stars[idx].outer_limit_radius

\* C2: no slot other than the slot seeded by calculate_first_orbit for a
\* Conventional, Eccentric or Epistellar star has a radius inside a forbidden
\* zone [inner, outer] of the system, edges included.  The seeded slot is the
\* only slot with contents until place_gas_giants starts, and holds the
\* marker until its iteration puts a GasGiant there.
C2_OnlySeededSlotInForbiddenZone ==
    \A i \in 2..Len(orbit) :
       (\E z \in 1..Len(forbidden_zone) :
           forbidden_zone[z][1] <= orbit[i][1] /\ orbit[i][1] <= forbidden_zone[z][2])
       => /\ Len(orbit[i]) = 2
          /\ \/ orbit[i][2] = PendingGasGiant
             \/ /\ pc = "place_gas_giants" => slot >= i - 1
                /\ HoldsGasGiant(orbit[i])
          /\ stars[idx].gas_giant_arrangement
                \in {"Conventional Gas Giant", "Eccentric Gas Giant",
                     "Epistellar Gas Giant"}
          /\ \A j \in 2..Len(orbit) :
                (pc # "fill_remaining_orbits" /\ pc # "done" /\ slot = 0
                    /\ Len(orbit[j]) = 2) => j = i

\* after expansion and sorting: a seeded gas-giant slot inside the zone of a
\* companion, next to slots the expansion accepted outside it
C2_Witness ==
    /\ pc = "place_gas_giants"
    /\ forbidden_zone # <<>>
    /\ \E i \in 2..Len(orbit), j \in 2..Len(orbit) :
          /\ Len(orbit[i]) = 2
          /\ InForbiddenZone(forbidden_zone, orbit[i][1])
          /\ Len(orbit[j]) = 1
          /\ orbit[j][1] < forbidden_zone[1][1]

C13_RadiusUndefinedIffTemperatureUndefined ==
    spc = "constructed" =>
        /\ (star.radius = None) <=> (star.temperature = None)
        /\ star.temperature # None =>
              LET t2 == (Val(star.temperature) * Val(star.temperature)) \div 100
                  num == 15500 * ISqrt(star.luminosity)
              IN /\ Val(star.radius) * t2 <= num
                 /\ num < (Val(star.radius) + 1) * t2

\* a white dwarf, the one class without a temperature
C13_Witness ==
    /\ spc = "constructed"
    /\ star.sequence = "D"
    /\ star.temperature = None
    /\ star.radius = None

\* C14: the luminosity of a constructed star is, on the main sequence, the
\* tabulated minimum when its mass row has no maximum and otherwise
\* min + (age / main-sequence span) * (max - min); for a subgiant the
\* tabulated maximum; for a giant 25 times the maximum.  On the main sequence
\* it is never below the minimum and equals the maximum exactly when the age
\* equals the main-sequence span.
C14_LuminosityBySequence ==
    spc = "constructed" =>
        LET row == EvolutionRowOf(star.mass)
        IN /\ (star.sequence = "V" /\ row.l_max = None) =>
                  star.luminosity = row.l_min
           /\ (star.sequence = "V" /\ row.l_max # None) =>
                  LET gain == star.luminosity - row.l_min
                      span == Val(row.m_span)
                      rise == star.age * (Val(row.l_max) - row.l_min)
                  IN /\ gain * span <= rise
                     /\ rise < (gain + 1) * span
                     /\ star.luminosity >= row.l_min
                     /\ (star.luminosity = Val(row.l_max)) <=> (star.age = span)
           /\ star.sequence = "IV" => star.luminosity = Val(row.l_max)
           /\ star.sequence = "III" => star.luminosity = 25 * Val(row.l_max)

\* a main-sequence star exactly at the end of its main-sequence span
C14_Witness ==
    /\ spc = "constructed"
    /\ star.sequence = "V"
    /\ star.mass = 100
    /\ star.age = 1000
    /\ star.luminosity = 16000

\* C15: roll_dice(n, modifier) returns a value r with
\* n + modifier <= r <= 6n + modifier, every value of that range can be
\* returned, and nothing clamps the result: it is zero or negative when the
\* modifier makes it so.
C15_RollDiceRange ==
    LET lo == dice.number_of_dice + dice.modifier
        hi == 6 * dice.number_of_dice + dice.modifier
    IN /\ RollDice(dice.number_of_dice, dice.modifier) = lo..hi
       /\ dice.result # None => (lo <= Val(dice.result) /\ Val(dice.result) <= hi)

\* a roll that returned a negative value
C15_Witness ==
    /\ dice.result # None
    /\ dice.number_of_dice = 2
    /\ dice.modifier = 0 - 4
    /\ Val(dice.result) = 0 - 2

C17_EveryStepAtLeastFloor ==
    [][/\ pc = "inward" =>
              /\ temp_radius - temp_radius' >= 150
              /\ \E f \in {LookUp(orbital_spacing_tree, r) : r \in RollDice(3, 0)} :
                    temp_radius' = IF temp_radius * 10 <= (temp_radius - 150) * f
                                   THEN (temp_radius * 10) \div f
                                   ELSE temp_radius - 150
       /\ pc = "outward" =>
              /\ temp_radius' - temp_radius >= 150
              /\ \E f \in {LookUp(orbital_spacing_tree, r) : r \in RollDice(3, 0)} :
                    temp_radius' = IF temp_radius * f >= (temp_radius + 150) * 10
                                   THEN (temp_radius * f) \div 10
                                   ELSE temp_radius + 150]_vars

\* C18: whatever the forbidden zones and the dice, the inward loop ends once
\* the radius is below the inner limit and the outward loop once it is above
\* the outer limit: calculate_orbits, once entered, reaches its end.
C18_CalculateOrbitsTerminates ==
    (pc = "inward_start") ~> (pc = "place_gas_giants")

\* calculate_orbits has ended for a star whose whole range from the inner to
\* the outer limit lies in forbidden zones, having accepted no slot
C18_Witness ==
    /\ pc = "place_gas_giants"
    /\ Len(orbit) = 1
    /\ \A r \in stars[idx].inner_limit_radius..stars[idx].outer_limit_radius :
          InForbiddenZone(forbidden_zone, r)

\* C19: while the entry of a Conventional, Eccentric or Epistellar star is
\* expanded and sorted it has exactly one slot with the pending marker, and
\* the entry of a star with no gas giant has none; no step of the expansion
\* or the sort changes the radius the marker stands at; and the iteration of
\* place_gas_giants that meets the marker leaves a GasGiant in that slot,
\* with the seeded radius as semi_major_axis and a size rolled with +4.
C19_SeededSlotBecomesGasGiant ==
    /\ []((\/ pc \in {"inward_start", "inward", "outward_start", "outward", "sort"}
            \/ (pc = "place_gas_giants" /\ slot = 0)) =>
             Cardinality({k \in 2..Len(orbit) : IsSeededSlot(orbit[k])}) =
                IF gas_giants[idx] = "No Gas Giant" THEN 0 ELSE 1)
    /\ [][LET layout == pc \in {"inward_start", "inward", "outward_start",
                                 "outward", "sort"}
              seeded_before == {j \in 2..Len(orbit) : IsSeededSlot(orbit[j])}
              seeded_after == {j \in 2..Len(orbit') : IsSeededSlot(orbit'[j])}
              meets_marker == /\ pc = "place_gas_giants"
                              /\ slot' = slot + 1
                              /\ IsSeededSlot(orbit[slot + 2])
              giant_placed == /\ HoldsGasGiant(orbit'[slot + 2])
                              /\ orbit'[slot + 2][2].semi_major_axis = orbit[slot + 2][1]
                              /\ orbit'[slot + 2][1] = orbit[slot + 2][1]
                              /\ rolled'.size = <<3, 4>>
          IN /\ layout => ({orbit[k][1] : k \in seeded_before}
                              = {orbit'[k][1] : k \in seeded_after})
             /\ meets_marker => giant_placed]_vars

\* C20: a slot that was not seeded gets a GasGiant only in an iteration of
\* place_gas_giants whose dice allow it: for a Conventional star the slot is
\* at or beyond the snow line and a roll made was <= 15; for an Eccentric
\* star it is at or beyond with a roll <= 14 or at or within with a roll
\* <= 8; for an Epistellar star at or beyond with a roll <= 14 or at or
\* within with a roll <= 6.  The entry of a star with no gas giant never
\* holds a GasGiant.
C20_GasGiantOnlyAsArrangementAllows ==
    /\ []((idx # 0 /\ gas_giants[idx] = "No Gas Giant") =>
             \A k \in 2..Len(orbit) :
                Len(orbit[k]) = 1 \/ (Len(orbit[k]) = 2 /\ ~HoldsGasGiant(orbit[k])))
    /\ [][LET radius == orbit[slot + 2][1]
              snow == stars[idx].snow_line_radius
              arrangement == gas_giants[idx]
              d == rolled'.decision
              beyond(limit) == radius >= snow /\ \E k \in DOMAIN d : d[k] <= limit
              within(limit) == radius <= snow /\ \E k \in DOMAIN d : d[k] <= limit
              becomes_giant == /\ pc = "place_gas_giants"
                               /\ slot' = slot + 1
                               /\ ~IsSeededSlot(orbit[slot + 2])
                               /\ HoldsGasGiant(orbit'[slot + 2])
              allowed == /\ arrangement # "No Gas Giant"
                         /\ (arrangement = "Conventional Gas Giant") => beyond(15)
                         /\ (arrangement = "Eccentric Gas Giant")
                               => (beyond(14) \/ within(8))
                         /\ (arrangement = "Epistellar Gas Giant")
                               => (beyond(14) \/ within(6))
          IN becomes_giant => allowed]_vars

\* place_gas_giants has just put a GasGiant into a slot within the snow line
\* of an Epistellar star that was not the seeded slot, on a roll of 6
C20_Witness ==
    /\ pc = "place_gas_giants"
    /\ slot >= 1
    /\ gas_giants[idx] = "Epistellar Gas Giant"
    /\ HoldsGasGiant(orbit[slot + 1])
    /\ orbit[slot + 1][1] < stars[idx].snow_line_radius
    /\ rolled.decision = <<6>>

\* C12: once generate_rotation_period has run on a body whose
\* total_tidal_effect is at least 50, the body is tidally locked and its
\* rotation_period equals its orbital_period field, for a moon its
\* satellite_orbital_period, whatever was rolled.
C12_LockedRotationEqualsOrbitalPeriod ==
    (/\ body # None
     /\ body.stage \in {"rotation_period", "axial_tilt"}
     /\ body.total_tidal_effect >= 50)
    => /\ body.is_tidally_locked
       /\ body.rotation_period =
             IF body.class = "MajorMoon" THEN body.satellite_orbital_period
             ELSE body.orbital_period

\* C11: any two major moons of the planet, in whatever order they were
\* placed, have satellite_orbital_radius values at least planet.diameter * 5
\* apart when the planet is a Terrestrial and planet.diameter * 1 otherwise.
C11_SiblingMoonsApart ==
    (body # None) =>
       \A j \in 1..Len(body.major_moons), k \in 1..Len(body.major_moons) :
          j # k =>
             Abs(body.major_moons[j].satellite_orbital_radius
                    - body.major_moons[k].satellite_orbital_radius)
                >= body.diameter * (IF body.class = "Terrestrial" THEN 5 ELSE 1)

\* a Terrestrial has its three moons, the third between the first two
\* and exactly five diameters from the first
C11_Witness ==
    /\ body # None
    /\ body.class = "Terrestrial"
    /\ body.stage = "major_moons"
    /\ Len(body.major_moons) = 3
    /\ LET r(k) == body.major_moons[k].satellite_orbital_radius
       IN /\ r(1) < r(3)
          /\ r(3) < r(2)
          /\ r(3) - r(1) = 5 * body.diameter

\* C21: the modifier of the roll fill_remaining_orbits makes for a slot that
\* is still unassigned is the sum of -3 if the slot is the closest of the
\* star's slots to the inner limit or to the outer limit (once even if
\* both), -6 if the next slot holds a GasGiant, -3 if the previous slot holds
\* a GasGiant, and -6 if the slot is the closest to an edge of some
\* forbidden zone (once however many zones match); it lies between -18 and
\* 0.  Where two slots at different radii are equally close the claim names
\* neither, and either reading is accepted.
C21_FillModifierIsSumOfTerms ==
    [][LET n == Len(orbit)
           r == orbit[slot + 2][1]
           others == {orbit[k][1] : k \in 2..n} \ {r}
           nearest(t) == \A x \in others : Abs(r - t) < Abs(x - t)
           beaten(t) == \E x \in others : Abs(x - t) < Abs(r - t)
           targets_limits == {stars[idx].inner_limit_radius,
                              stars[idx].outer_limit_radius}
           targets_zones == {forbidden_zone[z][e] :
                                z \in 1..Len(forbidden_zone), e \in {1, 2}}
           term(targets, amount) ==
               IF \E t \in targets : nearest(t) THEN {amount}
               ELSE IF \A t \in targets : beaten(t) THEN {0}
               ELSE {amount, 0}
           next_term == IF slot + 3 <= n /\ HoldsGasGiant(orbit[slot + 3])
                        THEN -6 ELSE 0
           previous_term == IF slot >= 1 /\ HoldsGasGiant(orbit[slot + 1])
                            THEN -3 ELSE 0
           rolls_for_slot == /\ pc = "fill_remaining_orbits"
                             /\ slot' = slot + 1
                             /\ Len(orbit[slot + 2]) = 1
           sum_of_terms == /\ rolled' # None
                           /\ rolled'.contents[1] = 3
                           /\ rolled'.contents[2] \in
                                 {a + next_term + previous_term + b :
                                     a \in term(targets_limits, -3),
                                     b \in term(targets_zones, -6)}
                           /\ rolled'.contents[2] \in -18..0
       IN rolls_for_slot => sum_of_terms]_vars

\* fill_remaining_orbits has rolled, with -9 or less, for a slot between two
\* GasGiants
C21_Witness ==
    /\ pc = "fill_remaining_orbits"
    /\ slot >= 2
    /\ slot + 2 <= Len(orbit)
    /\ rolled # None
    /\ HoldsGasGiant(orbit[slot])
    /\ HoldsGasGiant(orbit[slot + 2])
    /\ rolled.contents[2] <= -9

\* C22: when StarSystem.__init__ has completed every slot of the followed
\* entry is its radius and one occupant, which is Empty Orbit, Asteroid Belt,
\* a GasGiant or a Terrestrial; no step of fill_remaining_orbits changes a
\* slot that holds a GasGiant; no step of place_gas_giants or
\* fill_remaining_orbits changes the number, the order or the radii of the
\* slots; and the semi_major_axis of every planet is the radius of its slot.
C22_EverySlotFilledInPlace ==
    /\ [](pc = "done" =>
             \A k \in 2..Len(orbit) :
                /\ Len(orbit[k]) = 2
                /\ \/ orbit[k][2] \in {[kind |-> "str", value |-> "Empty Orbit"],
                                       [kind |-> "str", value |-> "Asteroid Belt"]}
                   \/ /\ "class" \in DOMAIN orbit[k][2]
                      /\ orbit[k][2].class \in {"GasGiant", "Terrestrial"})
    /\ [](\A k \in 2..Len(orbit) :
             (Len(orbit[k]) = 2 /\ "class" \in DOMAIN orbit[k][2])
                => orbit[k][2].semi_major_axis = orbit[k][1])
    /\ [][LET placing == pc \in {"place_gas_giants", "fill_remaining_orbits"}
              filling == pc = "fill_remaining_orbits"
              same_slots == /\ Len(orbit') = Len(orbit)
                            /\ \A k \in 2..Len(orbit) : orbit'[k][1] = orbit[k][1]
              giants_kept == \A k \in 2..Len(orbit) :
                                HoldsGasGiant(orbit[k]) => orbit'[k] = orbit[k]
          IN /\ placing => same_slots
             /\ filling => giants_kept]_vars

\* construction has completed for an entry that holds a GasGiant, a
\* Terrestrial and an Asteroid Belt or Empty Orbit
C22_Witness ==
    /\ pc = "done"
    /\ \E g \in 2..Len(orbit), t \in 2..Len(orbit), e \in 2..Len(orbit) :
          /\ HoldsGasGiant(orbit[g])
          /\ "class" \in DOMAIN orbit[t][2] /\ orbit[t][2].class = "Terrestrial"
          /\ "kind" \in DOMAIN orbit[e][2]

\* C23: once calculate_orbits has ended the followed entry is the star
\* followed by its slots in non-decreasing order of radius, so that the
\* slots before and after slot i are its nearest inner and outer neighbours;
\* this holds through place_gas_giants and fill_remaining_orbits.
C23_SlotsSortedByRadius ==
    pc \in {"place_gas_giants", "fill_remaining_orbits", "done", "raised"}
       => /\ Len(orbit) >= 1
          /\ orbit[1] = idx
          /\ \A k \in 2..(Len(orbit) - 1) : orbit[k][1] <= orbit[k + 1][1]

\* calculate_orbits has ended with the seeded slot, which was the first of the
\* entry, between two slots the expansions accepted
C23_Witness ==
    /\ pc = "place_gas_giants"
    /\ slot = 0
    /\ \E k \in 3..(Len(orbit) - 1) :
          /\ IsSeededSlot(orbit[k])
          /\ orbit[k - 1][1] < orbit[k][1]
          /\ orbit[k][1] < orbit[k + 1][1]

\* C24: the system has no forbidden zone until all its stars exist, and no
\* gas giant arrangement or orbit before the zones are computed; from then
\* on it has one zone per companion star, number_of_stars - 1 in all, each
\* with inner <= outer, and no later step changes them.
C24_ForbiddenZonesFixed ==
    /\ [](IF pc \in {"generate_number_of_stars", "generate_stars"}
          THEN forbidden_zone = <<>> /\ gas_giants = <<>> /\ orbit = <<>>
          ELSE /\ Len(stars) = number_of_stars
               /\ Len(forbidden_zone) = number_of_stars - 1
               /\ \A z \in 1..Len(forbidden_zone) :
                     forbidden_zone[z][1] <= forbidden_zone[z][2])
    /\ [][pc \notin {"generate_number_of_stars", "generate_stars"}
             => forbidden_zone' = forbidden_zone]_vars

\* construction has completed for a system of three stars, with two zones
C24_Witness ==
    /\ pc = "done"
    /\ number_of_stars = 3
    /\ Len(forbidden_zone) = 2
    /\ forbidden_zone[1] # forbidden_zone[2]

\* C26: every iteration of place_gas_giants that rolls a size, with modifier
\* 0 or +4, leaves in its slot a GasGiant whose size is Small, Standard or
\* Large and whose world type is that size's; the construction of the
\* GasGiant does not fail.
C26_GasGiantSizeRecognised ==
    [][LET rolls_size == /\ pc = "place_gas_giants"
                         /\ slot' = slot + 1
                         /\ rolled'.size # <<>>
           constructed == /\ pc' = "place_gas_giants"
                          /\ rolled'.size[1] = 3
                          /\ rolled'.size[2] \in {0, 4}
                          /\ HoldsGasGiant(orbit'[slot + 2])
                          /\ orbit'[slot + 2][2].size \in {"Small", "Standard", "Large"}
                          /\ orbit'[slot + 2][2].type
                                = (orbit'[slot + 2][2].size) \o " (Gas Giant)"
       IN rolls_size => constructed]_vars

C29_AxialTiltIffNotLocked ==
    /\ [](body # None /\ body.stage = "axial_tilt"
              => (body.axial_tilt = None <=> body.is_tidally_locked))
    /\ [][body # None /\ body.stage = "rotation_period" /\ body'.stage = "axial_tilt"
              => IF body.is_tidally_locked
                 THEN body'.axial_tilt = None /\ dice' = dice
                 ELSE /\ Len(dice') = Len(dice) + 1
                      /\ dice'[Len(dice')].number_of_dice = 3
                      /\ body'.axial_tilt # None
                      /\ Val(body'.axial_tilt) \in 0..90]_vars

C29_Witness ==
    /\ body # None
    /\ body.stage = "axial_tilt"
    /\ body.is_tidally_locked
    /\ body.total_tidal_effect < 50
    /\ body.axial_tilt = None
    /\ Len(dice) = 2

\* the moons of one planet with the constructor loop kept running: a step of
\* generate_major_moons that can be taken is eventually taken
FairSpecMoons == InitMoons /\ [][NextMoons]_vars /\ WF_vars(NextMoons)

\* C25: readjust_satellite_orbital_radius cannot loop forever: a moon under
\* construction is eventually appended to major_moons (or the construction
\* raises), whatever the dice give
C25_ReadjustTerminates ==
    (body # None /\ body.moon # None) ~> (body # None /\ body.moon = None)

\* C27: no look-up keyed by dice while the star count, the masses and ages,
\* the companions' separation and eccentricity, the gas giant arrangement,
\* the orbital spacing, the gas giant sizes and the orbit contents are
\* generated raises: whatever the dice and the modifiers given, the key lies
\* in a range of the table
C27_KeyInsideTable ==
    dice # None /\ config # None /\ "method" \in DOMAIN config /\ dice.result # None
        => /\ result.status = "returned"
           /\ point = Val(dice.result)
           /\ \E iv \in tree : iv.begin <= point /\ point < iv.end

C27_Witness ==
    /\ config # None /\ "method" \in DOMAIN config
    /\ config.method = "fill_remaining_orbits"
    /\ dice.modifier = -18
    /\ point = -15
    /\ result.status = "returned"

\* C28: the key of a companion's separation look-up is one roll of 3d6, plus
\* 4 in garden-world mode, plus 6 for the third star and plus nothing for
\* the second; the separation class and the radius multiplier are the two
\* values of the table's row for that key; so the third star of a system
\* not in garden-world mode is never Very Close
C28_SeparationFromOneRoll ==
    config # None /\ "method" \in DOMAIN config /\ dice.result # None
        /\ config.method = "generate_orbital_separation"
        => LET plus == (IF "garden" \in config.given THEN 4 ELSE 0)
                         + (IF "third star" \in config.given THEN 6 ELSE 0)
           IN /\ dice.number_of_dice = 3
              /\ point - plus \in 3..18
              /\ result.status = "returned"
              /\ \E iv \in orbital_separation_tree :
                    /\ iv.begin <= point /\ point < iv.end
                    /\ result.data = iv.data
              /\ (config.given = {"third star"} => result.data[1] # "Very Close")

C28_Witness ==
    /\ config # None /\ "method" \in DOMAIN config
    /\ config.method = "generate_orbital_separation"
    /\ config.given = {"third star"}
    /\ point = 9
    /\ result.status = "returned"
    /\ result.data = <<"Close", 500>>
====
